---- MODULE Spec2Model ----
(***************************************************************************)
(* Ascent: the real-time 3D flight sandbox (src/src/simulation, with the   *)
(* force functions of src/src/physics).                                    *)
(*                                                                         *)
(* The flyer entity, its two wings, the Atmosphere entity and the          *)
(* SimulationParams resource are the state.  Every system registered in    *)
(* Update by SimulationPlugin::build that writes this state is one action; *)
(* the schedule gives the systems no ordering constraint, so within a      *)
(* frame each of them runs once, in any order.                             *)
(*                                                                         *)
(* f32 values are fixed-point integers: the value v is the integer         *)
(* v * Scale, and products and quotients are truncated toward zero.        *)
(* Transform.rotation, meshes, the camera and the egui panels are not      *)
(* modelled: no force function reads them.                                 *)
(*                                                                         *)
(* The TelemetrySystem resource and its two systems, and the engineering   *)
(* calculator of src/src/main.rs (the flight analysis, the history of the  *)
(* main loop, the score and the parameter sweep of the optimizer), are     *)
(* modelled in the same arithmetic, each under a specification of its own. *)
(***************************************************************************)
EXTENDS Integers, Sequences, FiniteSets, TLC

(***************************************************************************)
(* Fixed-point arithmetic                                                  *)
(***************************************************************************)
\* one unit of value; a square, so that its root is an integer
Scale == 100 * 100
Abs(a) == IF a < 0 THEN -a ELSE a
Sgn(a) == IF a < 0 THEN -1 ELSE IF a > 0 THEN 1 ELSE 0
Min(a, b) == IF a < b THEN a ELSE b
Max(a, b) == IF a > b THEN a ELSE b
Clamp(a, lo, hi) == Max(lo, Min(a, hi))

\* floor(a * b / Scale) for a, b >= 0, without forming a * b when it would
\* not fit in 31 bits
MulScaled(a, b) ==
    IF a < 46341 /\ b < 46341 THEN (a * b) \div Scale
    ELSE LET qa == a \div Scale
             ra == a % Scale
             qb == b \div Scale
             rb == b % Scale
         IN  qa * qb * Scale + qa * rb + ra * qb + ((ra * rb) \div Scale)

\* f32 product
FMul(a, b) ==
    IF a >= 0
    THEN IF b >= 0 THEN MulScaled(a, b) ELSE -MulScaled(a, -b)
    ELSE IF b >= 0 THEN -MulScaled(-a, b) ELSE MulScaled(-a, -b)

\* floor(a * 10^k / b) for a >= 0, b > 0, by long division
RECURSIVE LongDiv(_, _, _)
LongDiv(a, b, k) ==
    IF k = 0 THEN a \div b
    ELSE (a \div b) * (10 ^ k) + LongDiv((a % b) * 10, b, k - 1)

\* floor(a * Scale / b) for a >= 0, b > 0, Scale being 10^4 (a divisor too large for the long
\* division is first shortened by one digit, together with the dividend)
DivScaled(a, b) ==
    IF a < 214748 THEN (a * Scale) \div b
    ELSE IF b > 200000000 THEN LongDiv(a \div 10, b \div 10, 4)
    ELSE LongDiv(a, b, 4)

\* f32 quotient, b # 0
FDiv(a, b) ==
    IF a >= 0
    THEN IF b >= 0 THEN DivScaled(a, b) ELSE -DivScaled(a, -b)
    ELSE IF b >= 0 THEN -DivScaled(-a, b) ELSE DivScaled(-a, -b)

\* f32::powi(2)
Sq(a) == FMul(a, a)

\* Newton's iteration for the integer square root, from a guess r >= sqrt(n)
RECURSIVE SqrtNewton(_, _)
SqrtNewton(n, r) ==
    LET next == (r + (n \div r)) \div 2
    IN  IF next >= r THEN r ELSE SqrtNewton(n, next)

\* floor of the square root of a natural number below 2^31
ISqrt(n) ==
    IF n = 0 THEN 0
    ELSE SqrtNewton(n, IF n < 1024 THEN 32
                       ELSE IF n < 65536 THEN 256
                       ELSE IF n < 4194304 THEN 2048
                       ELSE IF n < 268435456 THEN 16384
                       ELSE 46341)

\* std::f32::consts::PI, and 2*PI, PI/2
Pi == 31416
TwoPi == 2 * Pi
HalfPi == Pi \div 2

\* f32::sin for |x| <= pi/2 (Taylor polynomial to x^7)
Sin(x) ==
    LET x2 == FMul(x, x)
        x3 == FMul(x2, x)
        x5 == FMul(x3, x2)
        x7 == FMul(x5, x2)
    IN  x - (x3 \div 6) + (x5 \div 120) - (x7 \div 5040)

\* f32::cos for 0 <= x <= pi (Taylor polynomial to x^8 below pi/2,
\* -sin(x - pi/2) above)
Cos(x) ==
    IF x > HalfPi THEN -Sin(x - HalfPi)
    ELSE LET x2 == FMul(x, x)
             x4 == FMul(x2, x2)
             x6 == FMul(x4, x2)
             x8 == FMul(x4, x4)
         IN  Scale - (x2 \div 2) + (x4 \div 24) - (x6 \div 720) + (x8 \div 40320)

\* f32::cos and f32::sin for any x >= 0, reduced to 0..pi
CosFull(x) ==
    LET r == x % TwoPi
    IN  IF r > Pi THEN Cos(TwoPi - r) ELSE Cos(r)
SinFull(x) == CosFull(Abs(x - HalfPi))

\* f32::exp for 0 <= x <= 2: the Taylor series, term n = term (n-1) * x / n
RECURSIVE ExpTerms(_, _, _)
ExpTerms(x, term, n) ==
    IF n > 14 \/ term = 0 THEN 0
    ELSE term + ExpTerms(x, FMul(term, x) \div n, n + 1)
Exp(x) == ExpTerms(x, Scale, 1)

(***************************************************************************)
(* Vec3.  nan is TRUE when a component is NaN (the result of normalizing   *)
(* the zero vector); every operation propagates it and every comparison    *)
(* with a NaN length is false, as in IEEE 754.                             *)
(***************************************************************************)
Vec3(x, y, z) == [x |-> x, y |-> y, z |-> z, nan |-> FALSE]
ZERO == Vec3(0, 0, 0)
NaNVec == [x |-> 0, y |-> 0, z |-> 0, nan |-> TRUE]

VAdd(a, b) == [x |-> a.x + b.x, y |-> a.y + b.y, z |-> a.z + b.z,
               nan |-> a.nan \/ b.nan]
VSub(a, b) == [x |-> a.x - b.x, y |-> a.y - b.y, z |-> a.z - b.z,
               nan |-> a.nan \/ b.nan]
VNeg(a) == [x |-> -a.x, y |-> -a.y, z |-> -a.z, nan |-> a.nan]
\* Vec3 * f32
VScale(a, k) == [x |-> FMul(a.x, k), y |-> FMul(a.y, k), z |-> FMul(a.z, k),
                 nan |-> a.nan]
\* Vec3 / f32
VDivide(a, k) == [x |-> FDiv(a.x, k), y |-> FDiv(a.y, k), z |-> FDiv(a.z, k),
                  nan |-> a.nan]
Dot(a, b) == FMul(a.x, b.x) + FMul(a.y, b.y) + FMul(a.z, b.z)
Cross(a, b) == [x |-> FMul(a.y, b.z) - FMul(a.z, b.y),
                y |-> FMul(a.z, b.x) - FMul(a.x, b.z),
                z |-> FMul(a.x, b.y) - FMul(a.y, b.x),
                nan |-> a.nan \/ b.nan]

\* Vec3::length: the root is taken on components divided by k, the
\* smallest power of ten that keeps the sum of squares below 2^31
Length(a) ==
    LET m == Max(Abs(a.x), Max(Abs(a.y), Abs(a.z)))
        k == IF m <= 26000 THEN 1 ELSE IF m <= 260000 THEN 10 ELSE 100
        sx == a.x \div k
        sy == a.y \div k
        sz == a.z \div k
    IN  k * ISqrt(sx * sx + sy * sy + sz * sz)

\* Vec3::normalize: self * (1 / length), NaN for the zero vector
Normalize(a) ==
    LET len == Length(a)
    IN  IF a.nan \/ len = 0 THEN NaNVec ELSE VDivide(a, len)

(***************************************************************************)
(* src/src/physics: the force functions                                    *)
(***************************************************************************)
\* f32::to_radians
ToRadians(deg) == FMul(deg, Pi) \div 180

\* the epsilon of the near-zero-velocity guards (0.001)
VelocityEpsilon == 10

\* calculate_stall_factor without the .min(1.0) on the stall severity
StallFactorUnclamped(params) ==
    IF Abs(params.angle_of_attack) <= params.critical_angle THEN Scale
    ELSE LET over_critical ==
                 Max(Abs(params.angle_of_attack) - params.critical_angle, 0)
             stall_severity == FMul(over_critical, params.stall_progression_rate)
         IN  Scale - FMul(stall_severity, Scale - params.post_stall_drop)

\* stall.rs
CalculateStallFactor(params) ==
    IF Abs(params.angle_of_attack) <= params.critical_angle THEN Scale
    ELSE LET over_critical ==
                 Max(Abs(params.angle_of_attack) - params.critical_angle, 0)
             stall_severity ==
                 Min(FMul(over_critical, params.stall_progression_rate), Scale)
         IN  Scale - FMul(stall_severity, Scale - params.post_stall_drop)

CalculateLiftCoefficientWithStall(base_cl, angle_of_attack, stall_params) ==
    LET linear_cl == FMul(base_cl, Sin(angle_of_attack))
        stall_factor == CalculateStallFactor(
            [stall_params EXCEPT !.angle_of_attack = angle_of_attack])
    IN  FMul(linear_cl, stall_factor)

CalculateDragCoefficientStalled(base_cd, angle_of_attack, stall_params) ==
    IF Abs(angle_of_attack) <= stall_params.critical_angle THEN base_cd
    ELSE LET stall_severity ==
                 Min(FDiv(Abs(angle_of_attack) - stall_params.critical_angle,
                          stall_params.critical_angle), Scale)
         IN  FMul(base_cd, Scale + FMul(3 * Scale, stall_severity))

\* calculate_lift_force without its near-zero-velocity guard
LiftForceUnguarded(params, lift_coefficient) ==
    LET velocity_magnitude == Length(params.velocity)
        lift_magnitude ==
            FMul(FMul(FMul(FMul(Scale \div 2, params.air_density),
                           Sq(velocity_magnitude)),
                      params.wing_area),
                 lift_coefficient)
        velocity_normalized == Normalize(params.velocity)
        world_up == Vec3(0, Scale, 0)
        lift_direction ==
            Normalize(Cross(velocity_normalized,
                            Cross(world_up, velocity_normalized)))
    IN  VScale(lift_direction, lift_magnitude)

\* lift.rs
CalculateLiftForce(params, lift_coefficient) ==
    LET velocity_magnitude == Length(params.velocity)
    IN  IF ~params.velocity.nan /\ velocity_magnitude < VelocityEpsilon
        THEN ZERO
        ELSE LET lift_magnitude ==
                     FMul(FMul(FMul(FMul(Scale \div 2, params.air_density),
                                    Sq(velocity_magnitude)),
                               params.wing_area),
                          lift_coefficient)
                 velocity_normalized == Normalize(params.velocity)
                 world_up == Vec3(0, Scale, 0)
                 lift_direction ==
                     Normalize(Cross(velocity_normalized,
                                     Cross(world_up, velocity_normalized)))
             IN  VScale(lift_direction, lift_magnitude)

\* drag.rs
CalculateParasiticDrag(params) ==
    LET velocity_magnitude == Length(params.velocity)
    IN  IF ~params.velocity.nan /\ velocity_magnitude < VelocityEpsilon
        THEN ZERO
        ELSE LET drag_magnitude ==
                     FMul(FMul(FMul(FMul(Scale \div 2, params.air_density),
                                    Sq(velocity_magnitude)),
                               params.wing_area),
                          params.drag_coefficient)
             IN  VScale(VNeg(Normalize(params.velocity)), drag_magnitude)

CalculateInducedDrag(params, lift_coefficient) ==
    LET velocity_magnitude == Length(params.velocity)
    IN  IF ~params.velocity.nan /\ velocity_magnitude < VelocityEpsilon
        THEN ZERO
        ELSE LET induced_drag_coefficient ==
                     FDiv(Sq(lift_coefficient),
                          FMul(FMul(Pi, params.aspect_ratio),
                               params.efficiency_factor))
                 drag_magnitude ==
                     FMul(FMul(FMul(FMul(Scale \div 2, params.air_density),
                                    Sq(velocity_magnitude)),
                               params.wing_area),
                          induced_drag_coefficient)
             IN  VScale(VNeg(Normalize(params.velocity)), drag_magnitude)

CalculateTotalDrag(params, lift_coefficient) ==
    VAdd(CalculateParasiticDrag(params),
         CalculateInducedDrag(params, lift_coefficient))

\* calculate_ground_effect_factor without its cut-off above one span
GroundEffectWithoutCutoff(params) ==
    LET h_over_b == FDiv(params.altitude, params.wing_span)
        reduction_factor == FDiv(Sq(16 * h_over_b), Scale + Sq(16 * h_over_b))
    IN  FDiv(Scale, Scale - reduction_factor)

\* ground_effect.rs
CalculateGroundEffectFactor(params) ==
    LET h_over_b == FDiv(params.altitude, params.wing_span)
    IN  IF h_over_b > Scale THEN Scale
        ELSE LET reduction_factor ==
                     FDiv(Sq(16 * h_over_b), Scale + Sq(16 * h_over_b))
             IN  FDiv(Scale, Scale - reduction_factor)

ApplyGroundEffectToLift(base_lift, ground_effect_factor) ==
    VScale(base_lift, ground_effect_factor)

\* calculate_thrust_force without the .clamp(0.0, 0.8)
ThrustForceUnclamped(params) ==
    LET static_thrust == FMul(params.thrust_power, params.efficiency)
        velocity_in_thrust_direction ==
            Dot(params.velocity, params.thrust_direction)
        velocity_factor == Scale - velocity_in_thrust_direction \div 50
    IN  VScale(VScale(params.thrust_direction, static_thrust), velocity_factor)

\* thrust.rs
CalculateThrustForce(params) ==
    LET static_thrust == FMul(params.thrust_power, params.efficiency)
        velocity_in_thrust_direction ==
            Dot(params.velocity, params.thrust_direction)
        velocity_factor ==
            Scale - Clamp(velocity_in_thrust_direction \div 50, 0, 8000)
    IN  VScale(VScale(params.thrust_direction, static_thrust), velocity_factor)

\* flapping.rs: FlappingWing::default
DefaultFlappingWing ==
    [frequency |-> 2 * Scale, amplitude |-> ToRadians(45 * Scale),
     phase_offset |-> 0, power_stroke_ratio |-> 3000,
     twist_amplitude |-> ToRadians(20 * Scale), is_active |-> FALSE]

\* calculate_flapping_thrust without the power-stroke test
FlappingThrustEveryPhase(flapping, wing_area, air_density, t) ==
    IF ~flapping.is_active THEN ZERO
    ELSE LET phase == FMul(2 * FMul(t, flapping.frequency), Pi)
                          + flapping.phase_offset
             velocity ==
                 FMul(FMul(2 * FMul(flapping.amplitude, flapping.frequency), Pi),
                      CosFull(phase))
             thrust_coefficient == 8000
             thrust_magnitude ==
                 FMul(FMul(FMul(FMul(Scale \div 2, air_density),
                                Sq(Abs(velocity))),
                           wing_area),
                      thrust_coefficient)
         IN  Vec3(FMul(thrust_magnitude, 7000), FMul(thrust_magnitude, 3000), 0)

\* flapping.rs
CalculateFlappingThrust(flapping, wing_area, air_density, t) ==
    IF ~flapping.is_active THEN ZERO
    ELSE LET phase == FMul(2 * FMul(t, flapping.frequency), Pi)
                          + flapping.phase_offset
             velocity ==
                 FMul(FMul(2 * FMul(flapping.amplitude, flapping.frequency), Pi),
                      CosFull(phase))
             normalized_phase == FDiv(phase % TwoPi, TwoPi)
             is_power_stroke == normalized_phase < flapping.power_stroke_ratio
         IN  IF is_power_stroke
             THEN LET thrust_coefficient == 8000
                      thrust_magnitude ==
                          FMul(FMul(FMul(FMul(Scale \div 2, air_density),
                                         Sq(Abs(velocity))),
                                    wing_area),
                               thrust_coefficient)
                  IN  Vec3(FMul(thrust_magnitude, 7000),
                           FMul(thrust_magnitude, 3000), 0)
             ELSE ZERO

\* weather.rs: WeatherParams::default (temperature in degrees Celsius,
\* pressure in whole pascals)
DefaultWeatherParams ==
    [base_wind |-> Vec3(5 * Scale, 0, 2 * Scale),
     turbulence_intensity |-> 1000, gust_frequency |-> 1000,
     gust_strength |-> 2 * Scale, temperature |-> 15 * Scale,
     pressure |-> 101325, humidity |-> 5000]

\* weather.rs; pressures are kept in whole pascals, r * T in whole units
CalculateAirDensity(temperature, pressure, humidity) ==
    LET r_dry == 2870500
        r_vapor == 4614950
        temperature_kelvin == temperature + 2731500
        saturation_pressure ==
            FMul(611 * Scale,
                 Exp(FDiv(FMul(175020, temperature), 2409700 + temperature)))
        vapor_pressure == FMul(humidity, saturation_pressure)
        dry_pressure == pressure * Scale - vapor_pressure
    IN  FDiv(dry_pressure, FMul(r_dry, temperature_kelvin))
        + FDiv(vapor_pressure, FMul(r_vapor, temperature_kelvin))

\* weather.rs; rng holds the four draws of thread_rng: gust_chance in
\* 0..1 and the three gust components
CalculateWindWithTurbulence(weather, position, t, rng) ==
    LET turbulence ==
            VScale(Vec3(FMul(SinFull(FMul(position.x, 1000) + FMul(t, 5000)),
                             weather.turbulence_intensity),
                        FMul(CosFull(FMul(position.y, 1500) + FMul(t, 7000)),
                             weather.turbulence_intensity),
                        FMul(SinFull(FMul(position.z, 1200) + FMul(t, 6000)),
                             weather.turbulence_intensity)),
                   10 * Scale)
        gust == IF rng.gust_chance < weather.gust_frequency
                THEN VScale(Vec3(rng.x, rng.y, rng.z), weather.gust_strength)
                ELSE ZERO
    IN  VAdd(VAdd(weather.base_wind, turbulence), gust)

(***************************************************************************)
(* main.rs: the flight calculator (FlightParams, the structural and flight *)
(* analysis).  Masses in kg, forces in N, powers in W, as fixed-point      *)
(* values; Young's moduli in units of 10^8 Pa and the spar's second moment *)
(* of area in units of 10^-9 m^4, so that their product fits the range.    *)
(***************************************************************************)
(***************************************************************************)
(* src/src/main.rs: the flight analysis of the engineering calculator      *)
(***************************************************************************)
\* f32::sqrt, x >= 0
Sqrt(x) ==
    IF x <= 200000 THEN ISqrt(x * Scale)
    ELSE IF x <= 20000000 THEN 10 * ISqrt(x * 100)
    ELSE 100 * ISqrt(x)

\* f32::INFINITY
Infinity == 2147483647

\* FlightParams::default
DefaultFlightParams ==
    [pilot_mass |-> 80 * Scale, pilot_power_sustained |-> 200 * Scale,
     pilot_power_burst |-> 600 * Scale,
     wing_count |-> 4, wing_span |-> 3 * Scale, wing_chord |-> 15000,
     wing_thickness_ratio |-> 1200,
     wing_material |-> "Fabric", spar_material |-> "Carbon",
     wing_safety_factor |-> 2 * Scale,
     motor_power |-> 2000 * Scale, motor_mass |-> 8 * Scale,
     battery_capacity |-> 500 * Scale, motor_efficiency |-> 8500,
     airfoil_cl_max |-> 16000, airfoil_cd_min |-> 80,
     oswald_efficiency |-> 8000,
     forward_speed |-> 12 * Scale, flapping_frequency |-> 2 * Scale,
     flapping_amplitude |-> 25 * Scale, air_density |-> 12250,
     wind_speed |-> 0]

\* FlightParams::wing_area and FlightParams::aspect_ratio
WingArea(params) ==
    FMul(params.wing_count * params.wing_span, params.wing_chord)
AspectRatio(params) ==
    LET single_wing_ar == FDiv(params.wing_span, params.wing_chord)
    IN  IF params.wing_count = 4 THEN FMul(single_wing_ar, 7000)
        ELSE single_wing_ar

\* the density (kg/m^3) and Young's modulus (in units of 10^8 Pa) of the
\* wing skin and of the spar
WingDensity(material) ==
    CASE material = "Fabric" -> 200 [] material = "Carbon" -> 1600
      [] material = "Wood" -> 600 [] material = "Aluminum" -> 2700
WingYoungsModulus(material) ==
    CASE material = "Fabric" -> 0 [] material = "Carbon" -> 1500
      [] material = "Wood" -> 100 [] material = "Aluminum" -> 700
SparDensity(material) ==
    CASE material = "Carbon" -> 1600 [] material = "Aluminum" -> 2700
      [] material = "Wood" -> 500 [] material = "Steel" -> 7850
SparYoungsModulus(material) ==
    CASE material = "Carbon" -> 1500 [] material = "Aluminum" -> 700
      [] material = "Wood" -> 100 [] material = "Steel" -> 2000

\* calculate_structural_properties.  The stiffness is kept in whole units:
\* the spar height in mm, the moment of inertia in 10^-9 m^4, the
\* effective modulus in 10^8 Pa and their product in N m^2
CalculateStructuralProperties(params) ==
    LET wing_area_single == FMul(params.wing_span, params.wing_chord)
        effective_thickness ==
            FMul(params.wing_chord, params.wing_thickness_ratio)
        wing_skin_mass ==
            FMul(FMul(FMul(wing_area_single,
                           WingDensity(params.wing_material) * Scale),
                      effective_thickness), 100)
        spar_height == FMul(effective_thickness, 8000)
        spar_width == 200
        spar_volume == FMul(FMul(params.wing_span, spar_height), spar_width)
        spar_mass ==
            FMul(spar_volume, SparDensity(params.spar_material) * Scale)
        wing_mass == wing_skin_mass + spar_mass + 15000
        total_structural_mass ==
            wing_mass * params.wing_count + params.motor_mass
        dynamic_pressure ==
            FMul(FMul(5000, params.air_density), Sq(params.forward_speed))
        max_lift_per_wing ==
            FMul(FMul(params.airfoil_cl_max, dynamic_pressure),
                 wing_area_single)
        total_weight == FMul(params.pilot_mass + total_structural_mass, 98100)
        max_load_factor ==
            FDiv(max_lift_per_wing * params.wing_count, total_weight)
        spar_height_mm == spar_height \div 10
        moment_of_inertia ==
            (spar_height_mm * spar_height_mm * spar_height_mm) \div 600
        distributed_load == FDiv(max_lift_per_wing, params.wing_span)
        effective_modulus ==
            (WingYoungsModulus(params.wing_material)
                + 9 * SparYoungsModulus(params.spar_material)) \div 10
        stiffness == Max((effective_modulus * moment_of_inertia) \div 10, 1)
        span4 == Sq(Sq(params.wing_span))
        wing_deflection ==
            FDiv((distributed_load \div 100) * (span4 \div Scale),
                 8 * stiffness) \div 100
        flutter_parameter ==
            FDiv(stiffness,
                 Max(SparDensity(params.spar_material)
                        * (FMul(wing_area_single, span4) \div Scale), 1))
        critical_flutter_speed == 20 * Sqrt(flutter_parameter)
    IN  [wing_mass |-> wing_mass,
         spar_mass |-> spar_mass,
         total_structural_mass |-> total_structural_mass,
         max_load_factor |-> max_load_factor,
         wing_deflection |-> wing_deflection,
         critical_flutter_speed |-> critical_flutter_speed,
         structural_feasible |->
            /\ max_load_factor >= params.wing_safety_factor
            /\ wing_deflection < FMul(params.wing_span, 1000)
            /\ critical_flutter_speed > FMul(params.forward_speed, 15000)]

\* the flapping boost of the lift coefficient (Takeoff and InFlight)
FlappingBoost(params, effective_airspeed) ==
    IF params.flapping_frequency > 1000
    THEN LET reduced_frequency ==
                 FDiv(FMul(params.flapping_frequency, params.wing_span),
                      Max(effective_airspeed, 1000))
         IN  Scale + Min(FMul(FMul(reduced_frequency, 3000),
                              FDiv(params.flapping_amplitude, 45 * Scale)),
                         8000)
    ELSE Scale

\* calculate_comprehensive_flight_analysis, first part: the properties that
\* do not depend on the flight state, and the flight phase
FlightBasics(params, structural) ==
    LET total_mass == params.pilot_mass + structural.total_structural_mass
        weight_force == FMul(total_mass, 98100)
        wing_area == WingArea(params)
        stall_speed ==
            Sqrt(FDiv(2 * weight_force,
                      FMul(FMul(params.air_density, wing_area),
                           params.airfoil_cl_max)))
        effective_airspeed == Max(params.forward_speed - params.wind_speed, 0)
        available_power ==
            params.pilot_power_burst
                + FMul(params.motor_power, params.motor_efficiency)
    IN  [total_mass |-> total_mass,
         weight_force |-> weight_force,
         wing_area |-> wing_area,
         wing_loading |-> FDiv(weight_force, wing_area),
         stall_speed |-> stall_speed,
         effective_airspeed |-> effective_airspeed,
         available_power |-> available_power,
         flight_phase |->
            IF effective_airspeed < Scale THEN "OnGround"
            ELSE IF effective_airspeed < FMul(stall_speed, 11000)
                    /\ available_power > 1000 * Scale
            THEN "Takeoff"
            ELSE IF effective_airspeed >= stall_speed THEN "InFlight"
            ELSE "OnGround"]

\* the lift coefficient of a wing always at its maximum
MaxAvailableCl(required_cl, max_available_cl) == max_available_cl

\* the lift coefficient in flight: what level flight requires, as far as
\* the wing provides it
LevelFlightCl(required_cl, max_available_cl) ==
    Min(required_cl, max_available_cl)

\* second part: the flight-dependent lift and drag of basics b
FlightForces(params, b) ==
    LET q == FMul(FMul(5000, params.air_density), Sq(b.effective_airspeed))
        flapping_boost == FlappingBoost(params, b.effective_airspeed)
        required_cl ==
            FDiv(b.weight_force, FMul(FMul(q, b.wing_area), flapping_boost))
        max_available_cl == FMul(params.airfoil_cl_max, flapping_boost)
        cl == IF b.flight_phase = "Takeoff" THEN max_available_cl
              ELSE LevelFlightCl(required_cl, max_available_cl)
        lift == IF b.flight_phase = "Takeoff"
                THEN FMul(FMul(cl, q), b.wing_area)
                ELSE FMul(FMul(FMul(cl, q), b.wing_area), flapping_boost)
        base_induced_drag ==
            FDiv(Sq(cl), FMul(FMul(Pi, AspectRatio(params)),
                              params.oswald_efficiency))
        multi_wing_penalty == IF params.wing_count = 4 THEN 13000 ELSE Scale
        induced_drag_coeff == FMul(base_induced_drag, multi_wing_penalty)
        cd == params.airfoil_cd_min + induced_drag_coeff
        drag == FMul(FMul(cd, q), b.wing_area)
    IN  IF b.flight_phase \in {"Takeoff", "InFlight"}
        THEN [dynamic_pressure |-> q, current_lift_coefficient |-> cl,
              current_drag_coefficient |-> cd, lift_force |-> lift,
              drag_force |-> drag]
        ELSE [dynamic_pressure |-> 0, current_lift_coefficient |-> 0,
              current_drag_coefficient |-> 0, lift_force |-> 0,
              drag_force |-> 0]

\* the largest finite value of the fixed-point range
MaxFinite == 2147483646

\* params.battery_capacity / (draw / 1000.0) * 60.0, draw > 0: minutes of
\* motor time; a time beyond the fixed-point range is its largest value
MotorMinutes(battery_capacity, draw) ==
    LET kilowatts == FDiv(draw, 1000 * Scale)
    IN  IF kilowatts * 3000 <= battery_capacity THEN MaxFinite
        ELSE 60 * FDiv(battery_capacity, kilowatts)

\* the ground roll with every positive acceleration taken as a takeoff
TakeoffDistanceOfAnyAcceleration(flight_phase, lift_off_speed, acceleration) ==
    IF flight_phase = "Takeoff" /\ acceleration > 0
    THEN FDiv(Sq(lift_off_speed), 2 * acceleration)
    ELSE Infinity

\* the takeoff distance: the ground roll to lift_off_speed
TakeoffDistance(flight_phase, lift_off_speed, acceleration) ==
    IF flight_phase = "Takeoff"
    THEN IF acceleration > 1000
         THEN FDiv(Sq(lift_off_speed), 2 * acceleration)
         ELSE Infinity
    ELSE Infinity

\* third part: powers, capabilities, endurance and takeoff distance of
\* basics b and forces f
FlightPerformance(params, structural, b, f) ==
    LET off_ground == b.flight_phase # "OnGround"
        power_to_overcome_drag ==
            IF off_ground THEN FMul(f.drag_force, b.effective_airspeed) ELSE 0
        wing_tip_velocity ==
            FMul(FMul(params.flapping_frequency, params.wing_span),
                 ToRadians(params.flapping_amplitude))
        wing_inertia == FMul(structural.wing_mass, Sq(params.wing_span)) \div 3
        inertial_power ==
            FMul(FMul(wing_inertia,
                      Sq(FMul(TwoPi, params.flapping_frequency))),
                 wing_tip_velocity)
        power_for_flapping ==
            IF params.flapping_frequency > 1000 /\ off_ground
            THEN (inertial_power * params.wing_count) \div 10
            ELSE 0
        excess_lift == Max(f.lift_force - b.weight_force, 0)
        climb_rate ==
            FMul(FMul(FDiv(excess_lift, b.weight_force), b.effective_airspeed),
                 1000)
        power_for_climb ==
            IF b.flight_phase = "InFlight" THEN FMul(b.weight_force, climb_rate)
            ELSE 0
        total_power_required ==
            power_to_overcome_drag + power_for_flapping + power_for_climb
        motor_output == FMul(params.motor_power, params.motor_efficiency)
        sustained_power_available == params.pilot_power_sustained + motor_output
        excess_power == sustained_power_available - total_power_required
        actual_motor_power_draw ==
            IF off_ground
            THEN Min(motor_output,
                     total_power_required - Max(params.pilot_power_sustained, 0))
            ELSE 0
        lift_off_speed == FMul(b.stall_speed, 12000)
        ground_drag == FMul(200, b.weight_force)
        net_thrust ==
            FDiv(b.available_power, Max(b.effective_airspeed, Scale))
                - ground_drag
        acceleration == FDiv(net_thrust, b.total_mass)
    IN  [power_to_overcome_drag |-> power_to_overcome_drag,
         power_for_flapping |-> power_for_flapping,
         power_for_climb |-> power_for_climb,
         total_power_required |-> total_power_required,
         power_loading |->
            IF total_power_required > 0
            THEN FDiv(total_power_required, b.weight_force) ELSE 0,
         can_takeoff |->
            /\ b.available_power > FMul(total_power_required, 13000)
            /\ structural.structural_feasible
            /\ b.effective_airspeed > FMul(b.stall_speed, 8000),
         can_sustain_level_flight |->
            /\ sustained_power_available > total_power_required
            /\ b.effective_airspeed > b.stall_speed
            /\ structural.structural_feasible,
         can_climb |->
            IF excess_power > 0 THEN FDiv(excess_power, b.weight_force)
            ELSE -Scale,
         motor_flight_time |->
            IF actual_motor_power_draw > 0
            THEN MotorMinutes(params.battery_capacity, actual_motor_power_draw)
            ELSE Infinity,
         acceleration |-> acceleration,
         takeoff_distance |->
            TakeoffDistance(b.flight_phase, lift_off_speed, acceleration)]

\* fields of a @ fields of b (the names are distinct)
Merge(a, b) ==
    [k \in (DOMAIN a) \cup (DOMAIN b) |-> IF k \in DOMAIN a THEN a[k] ELSE b[k]]

\* calculate_comprehensive_flight_analysis, given its structural properties
\* and then its basics (reynolds_number and flutter_margin, which nothing
\* reads but the display, are left out; acceleration, a local of the takeoff
\* branch, is kept for the properties)
AnalysisFromBasics(params, structural, b) ==
    CHOOSE r \in {Merge(Merge(b, f), FlightPerformance(params, structural, b, f))
                    : f \in {FlightForces(params, b)}} : TRUE
AnalysisFromStructure(params, structural) ==
    CHOOSE r \in {Merge([structural |-> structural],
                        AnalysisFromBasics(params, structural, b))
                    : b \in {FlightBasics(params, structural)}} : TRUE
CalculateComprehensiveFlightAnalysis(params) ==
    CHOOSE r \in {AnalysisFromStructure(params, s)
                    : s \in {CalculateStructuralProperties(params)}} : TRUE

\* the sum of the terms of score_configuration for an analysis with a finite
\* takeoff distance
ScoreTerms(analysis) ==
    (IF analysis.can_sustain_level_flight
           /\ analysis.structural.structural_feasible
     THEN 1000 * Scale
     ELSE IF analysis.can_takeoff /\ analysis.structural.structural_feasible
     THEN 300 * Scale
     ELSE 0)
    + (IF analysis.total_power_required > 0
       THEN FDiv(1000 * Scale, analysis.total_power_required)
       ELSE 0)
    - analysis.total_mass * 5
    - FMul(analysis.wing_loading, 1000)
    - analysis.stall_speed * 10
    + (IF analysis.motor_flight_time > 10 * Scale
          /\ analysis.motor_flight_time < 60 * Scale
       THEN 100 * Scale ELSE 0)
    + (IF analysis.takeoff_distance < 100 * Scale THEN 100 * Scale
       ELSE IF analysis.takeoff_distance > 500 * Scale
       THEN -FMul(analysis.takeoff_distance - 500 * Scale, 1000)
       ELSE 0)

\* the score of an analysis without its floor at zero
ScoreUnclamped(analysis) ==
    IF analysis.takeoff_distance = Infinity THEN -Infinity
    ELSE ScoreTerms(analysis)

\* score_configuration, given the analysis of the configuration: an
\* infinite takeoff distance makes the sum minus infinity
ScoreOfAnalysis(analysis) ==
    IF analysis.takeoff_distance = Infinity THEN 0
    ELSE Max(ScoreTerms(analysis), 0)

\* score_configuration
ScoreConfiguration(params) ==
    CHOOSE r \in {ScoreOfAnalysis(a)
                    : a \in {CalculateComprehensiveFlightAnalysis(params)}}
             : TRUE

\* optimize_parameters: param_ranges, as (name, min_val, max_val, step)
ParamRanges ==
    <<[name |-> "wing_span", min_val |-> 2 * Scale, max_val |-> 8 * Scale,
       step |-> 5000],
      [name |-> "wing_chord", min_val |-> 5000, max_val |-> 3 * Scale,
       step |-> 2500],
      [name |-> "motor_power", min_val |-> 0, max_val |-> 5000 * Scale,
       step |-> 500 * Scale],
      [name |-> "forward_speed", min_val |-> 8 * Scale,
       max_val |-> 20 * Scale, step |-> Scale]>>

\* optimize_parameters: the rounds of the outer loop
OptimizerRounds == 10

(***************************************************************************)
(* Bounds of the model                                                     *)
(***************************************************************************)
\* frames per run
MaxFrames == 2
\* keys that may be down in one frame
MaxKeys == 1
\* TelemetrySystem.max_data_points in the model (the default is 10000)
MaxDataPoints == 3
\* frames per run of the telemetry systems
MaxTelemetryFrames == 6
\* frames per run of the calculator's main loop, and the frames (the
\* first ones) in which the user moves a slider or the frame time varies
MaxLoopFrames == 102
MaxEditFrames == 3

(***************************************************************************)
(* State                                                                   *)
(***************************************************************************)
VARIABLES
    translation,   \* Transform.translation of the flyer
    dynamics,      \* FlightDynamics: velocity, acceleration, angular_velocity, forces
    flight_data,   \* FlightData
    throttle,      \* Propulsion.throttle
    wings,         \* per wing: Wing.angle_of_attack and FlappingWing.is_active
    stall,         \* StallIndicator
    atmosphere,    \* Atmosphere: air_density, wind_velocity
    is_running,    \* SimulationParams.is_running
    time,          \* Res<Time>: delta and elapsed seconds of the frame
    keyboard,      \* ButtonInput<KeyCode>: the keys down in the frame
    pending,       \* the Update systems that have not yet run in the frame
    frame,         \* number of frames started
    frame_start,   \* history: the state when the frame started
    call,          \* the last evaluation of a function, or the one in progress
    telemetry,     \* telemetry.rs: the TelemetrySystem resource
    state          \* main.rs: the SimulationState of the calculator

vars == <<translation, dynamics, flight_data, throttle, wings, stall,
          atmosphere, is_running, time, keyboard, pending, frame,
          frame_start, call, telemetry, state>>

world == <<translation, dynamics, flight_data, throttle, wings, stall,
           atmosphere, is_running>>

\* components.rs: Forces::default
DefaultForces ==
    [lift |-> ZERO, drag |-> ZERO, weight |-> ZERO, thrust |-> ZERO,
     total |-> ZERO]

\* systems.rs spawn_flyer: the constant fields of Flyer, Propulsion and Wing
Flyer == [mass |-> 80 * Scale]
Propulsion ==
    [thrust_power |-> 500 * Scale,
     thrust_direction |-> Normalize(Vec3(0, Scale \div 2, Scale)),
     efficiency |-> 8500, propeller_diameter |-> 12000]
Wing ==
    [span |-> 5 * Scale, chord |-> Scale, area |-> 5 * Scale,
     aspect_ratio |-> 5 * Scale, lift_coefficient_base |-> 12000,
     drag_coefficient_base |-> 300, efficiency_factor |-> 8500]
\* the flyer has two Wing children
WingIds == 1..2

\* resources.rs: SimulationParams::default
SimulationParams ==
    [gravity |-> 98100, simulation_speed |-> Scale, is_running |-> FALSE]

\* stabilization.rs: FlightStabilizer::default
FlightStabilizer ==
    [max_velocity |-> 50 * Scale, max_angular_velocity |-> 2 * Scale,
     stability_damping |-> 9800, auto_level_strength |-> 5000]

\* systems.rs spawn_flyer and handle_input (reset): the spawn-time values
SpawnTranslation == Vec3(0, 5 * Scale, 0)
SpawnDynamics ==
    [velocity |-> ZERO, acceleration |-> ZERO, angular_velocity |-> ZERO,
     forces |-> DefaultForces]
SpawnFlightData ==
    [altitude |-> 5 * Scale, airspeed |-> 0, vertical_speed |-> 0,
     flight_time |-> 0, distance_traveled |-> 0]
SpawnAngleOfAttack == 1000

Snapshot ==
    [translation |-> translation, dynamics |-> dynamics,
     flight_data |-> flight_data, throttle |-> throttle, wings |-> wings,
     atmosphere |-> atmosphere, is_running |-> is_running]

NoCall == [fn |-> "none"]

\* mod.rs: the Update systems that write the modelled state
Systems ==
    {"update_physics", "update_flight_dynamics", "handle_input",
     "toggle_flapping", "apply_flight_stabilization", "add_ground_avoidance"}

\* telemetry.rs: TelemetrySystem::default (export_path is not modelled)
DefaultTelemetrySystem ==
    [enabled |-> TRUE, recording |-> FALSE, data_points |-> <<>>,
     max_data_points |-> MaxDataPoints, recording_interval |-> 1000,
     last_record_time |-> 0]

\* main.rs: HistoryData::new
HistoryNew ==
    [power_history |-> <<>>, lift_history |-> <<>>, speed_history |-> <<>>,
     drag_history |-> <<>>, time_stamps |-> <<>>]

\* an update that makes room only when the series are over their capacity
HistoryUpdateOverCapacity(history, analysis, t) ==
    LET full == Len(history.power_history) > 100
        kept == [k \in DOMAIN history |->
                    IF full THEN Tail(history[k]) ELSE history[k]]
    IN  [power_history |->
            Append(kept.power_history, analysis.total_power_required),
         lift_history |->
            Append(kept.lift_history,
                   FDiv(analysis.lift_force, analysis.weight_force)),
         speed_history |->
            Append(kept.speed_history, analysis.effective_airspeed),
         drag_history |-> Append(kept.drag_history, analysis.drag_force),
         time_stamps |-> Append(kept.time_stamps, t)]

\* main.rs: HistoryData::update
HistoryUpdate(history, analysis, t) ==
    LET full == Len(history.power_history) >= 100
        kept == [k \in DOMAIN history |->
                    IF full THEN Tail(history[k]) ELSE history[k]]
    IN  [power_history |->
            Append(kept.power_history, analysis.total_power_required),
         lift_history |->
            Append(kept.lift_history,
                   FDiv(analysis.lift_force, analysis.weight_force)),
         speed_history |->
            Append(kept.speed_history, analysis.effective_airspeed),
         drag_history |-> Append(kept.drag_history, analysis.drag_force),
         time_stamps |-> Append(kept.time_stamps, t)]

\* main.rs main: the SimulationState before the first frame (the fields of
\* the display, camera_rotation, selected_preset and active_tab, and the
\* optimization fields that only the display reads, are not modelled)
InitialSimulationState ==
    [params |-> DefaultFlightParams,
     analysis |-> CalculateComprehensiveFlightAnalysis(DefaultFlightParams),
     history |-> HistoryNew, time |-> 0]

\* the state after the Startup systems (setup_environment, spawn_flyer), and
\* of the calculator before its first frame
Init ==
    /\ translation = SpawnTranslation
    /\ dynamics = SpawnDynamics
    /\ flight_data = SpawnFlightData
    /\ throttle = 0
    /\ wings = [w \in WingIds |->
                  [angle_of_attack |-> SpawnAngleOfAttack, is_active |-> FALSE]]
    /\ stall = [is_stalled |-> FALSE, stall_severity |-> 0]
    /\ atmosphere = [air_density |-> 12250,
                     wind_velocity |-> Vec3(5 * Scale, 0, 2 * Scale)]
    /\ is_running = SimulationParams.is_running
    /\ time = [delta |-> 0, elapsed |-> 0]
    /\ keyboard = {}
    /\ pending = {}
    /\ frame = 0
    /\ frame_start = Snapshot
    /\ call = NoCall
    /\ telemetry = DefaultTelemetrySystem
    /\ state = InitialSimulationState

(***************************************************************************)
(* Inputs of a frame                                                       *)
(***************************************************************************)
Keys == {"Space", "KeyW", "KeyS", "KeyT", "KeyR", "KeyF"}
KeyChoices == {k \in SUBSET Keys : Cardinality(k) <= MaxKeys}
\* Time::delta_secs of a frame: 0 (the first frame), 0.1 s or 0.25 s (the
\* longest delta the virtual clock of Bevy reports)
Deltas == {0, 1000, 2500}
\* the draws of thread_rng in one call of calculate_wind_with_turbulence:
\* no gust, or a gust of (-0.5, 0.25, 0.5) * gust_strength
RngDraws ==
    {[gust_chance |-> 5000, x |-> 0, y |-> 0, z |-> 0],
     [gust_chance |-> 500, x |-> -5000, y |-> 2500, z |-> 5000]}

\* the app runner: a new frame starts when every system of the last one has
\* run; Time and ButtonInput are updated before the Update schedule
BeginFrame ==
    /\ pending = {}
    /\ frame < MaxFrames
    /\ \E keys \in KeyChoices, delta \in Deltas :
          /\ keyboard' = keys
          /\ time' = [delta |-> delta, elapsed |-> time.elapsed + delta]
    /\ pending' = Systems
    /\ frame' = frame + 1
    /\ frame_start' = Snapshot
    /\ UNCHANGED <<world, call, telemetry, state>>

\* the scheduler picks system s, which has not yet run in this frame
Runs(s) ==
    /\ s \in pending
    /\ pending' = pending \ {s}
    /\ UNCHANGED <<time, keyboard, frame, frame_start, call, telemetry, state>>

(***************************************************************************)
(* systems.rs: update_physics                                              *)
(***************************************************************************)
\* a severity that is computed whether the wing is stalled or not
StallSeverityOfAnyAngle(angle_of_attack, critical_angle) ==
    [is_stalled |-> Abs(angle_of_attack) > critical_angle,
     stall_severity |->
        Min(FDiv(Abs(angle_of_attack) - critical_angle, critical_angle), Scale)]

\* the StallIndicator that the loop body writes for a wing
WriteStallIndicator(angle_of_attack, critical_angle) ==
    LET is_stalled == Abs(angle_of_attack) > critical_angle
    IN  [is_stalled |-> is_stalled,
         stall_severity |->
            IF is_stalled
            THEN Min(FDiv(Abs(angle_of_attack) - critical_angle,
                          critical_angle), Scale)
            ELSE 0]

\* the body of the loop over the flyer's children, for one wing; acc holds
\* total_lift, total_drag, dynamics.forces.thrust and the StallIndicator
WingForces(acc, wing, dyn, pos, atm, elapsed) ==
    LET airspeed_vector == VSub(dyn.velocity, atm.wind_velocity)
        stall_params ==
            [angle_of_attack |-> wing.angle_of_attack,
             critical_angle |-> ToRadians(15 * Scale),
             post_stall_drop |-> 5000,
             stall_progression_rate |-> 2 * Scale]
        lift_coefficient ==
            CalculateLiftCoefficientWithStall(Wing.lift_coefficient_base,
                                              wing.angle_of_attack, stall_params)
        lift_params ==
            [air_density |-> atm.air_density, velocity |-> airspeed_vector,
             wing_area |-> Wing.area, wing_span |-> Wing.span,
             wing_chord |-> Wing.chord,
             angle_of_attack |-> wing.angle_of_attack]
        ground_effect_params ==
            [altitude |-> pos.y, wing_span |-> Wing.span,
             wing_chord |-> Wing.chord]
        ground_effect_factor == CalculateGroundEffectFactor(ground_effect_params)
        lift_force ==
            ApplyGroundEffectToLift(CalculateLiftForce(lift_params, lift_coefficient),
                                    ground_effect_factor)
        drag_coefficient ==
            CalculateDragCoefficientStalled(Wing.drag_coefficient_base,
                                            wing.angle_of_attack, stall_params)
        drag_params ==
            [air_density |-> atm.air_density, velocity |-> airspeed_vector,
             wing_area |-> Wing.area, drag_coefficient |-> drag_coefficient,
             aspect_ratio |-> Wing.aspect_ratio,
             efficiency_factor |-> Wing.efficiency_factor]
        drag_force == CalculateTotalDrag(drag_params, lift_coefficient)
        flapping == [DefaultFlappingWing EXCEPT !.is_active = wing.is_active]
        flapping_thrust ==
            CalculateFlappingThrust(flapping, Wing.area, atm.air_density, elapsed)
    IN  [total_lift |-> VAdd(acc.total_lift, lift_force),
         total_drag |-> VAdd(acc.total_drag, drag_force),
         thrust |-> IF wing.is_active THEN VAdd(acc.thrust, flapping_thrust)
                    ELSE acc.thrust,
         stall |-> WriteStallIndicator(wing.angle_of_attack,
                                       stall_params.critical_angle)]

\* the loop over the children, wings i..Len in query order
RECURSIVE WingLoop(_, _, _, _, _, _, _)
WingLoop(i, acc, wgs, dyn, pos, atm, elapsed) ==
    IF i \notin DOMAIN wgs THEN acc
    ELSE WingLoop(i + 1, WingForces(acc, wgs[i], dyn, pos, atm, elapsed),
                  wgs, dyn, pos, atm, elapsed)

\* an end of the loop body that leaves the thrust out of forces.total
SumForcesWithoutThrust(dyn, acc, thr, atm) ==
    LET thrust_params ==
            [thrust_power |-> FMul(Propulsion.thrust_power, thr),
             thrust_direction |-> Propulsion.thrust_direction,
             efficiency |-> Propulsion.efficiency,
             propeller_diameter |-> Propulsion.propeller_diameter,
             air_density |-> atm.air_density, velocity |-> dyn.velocity]
        weight == Vec3(0, -FMul(Flyer.mass, SimulationParams.gravity), 0)
        thrust == VAdd(acc.thrust, CalculateThrustForce(thrust_params))
        total == VAdd(VAdd(weight, acc.total_lift), acc.total_drag)
    IN  [dynamics |->
            [dyn EXCEPT !.forces = [lift |-> acc.total_lift,
                                    drag |-> acc.total_drag,
                                    weight |-> weight, thrust |-> thrust,
                                    total |-> total],
                        !.acceleration = VDivide(total, Flyer.mass)],
         stall |-> acc.stall]

\* the end of the loop body over flyers, after the loop over the wings
\* (acc): the base thrust is added to dynamics.forces.thrust, then the
\* total and the acceleration are written
SumForces(dyn, acc, thr, atm) ==
    LET thrust_params ==
            [thrust_power |-> FMul(Propulsion.thrust_power, thr),
             thrust_direction |-> Propulsion.thrust_direction,
             efficiency |-> Propulsion.efficiency,
             propeller_diameter |-> Propulsion.propeller_diameter,
             air_density |-> atm.air_density, velocity |-> dyn.velocity]
        weight == Vec3(0, -FMul(Flyer.mass, SimulationParams.gravity), 0)
        thrust == VAdd(acc.thrust, CalculateThrustForce(thrust_params))
        total == VAdd(VAdd(VAdd(weight, acc.total_lift), acc.total_drag), thrust)
    IN  [dynamics |->
            [dyn EXCEPT !.forces = [lift |-> acc.total_lift,
                                    drag |-> acc.total_drag,
                                    weight |-> weight, thrust |-> thrust,
                                    total |-> total],
                        !.acceleration = VDivide(total, Flyer.mass)],
         stall |-> acc.stall]

\* the body of the loop over flyers: the new FlightDynamics and
\* StallIndicator of the flyer.  dynamics.forces.thrust is not cleared: the
\* flapping thrust and the base thrust are added to the record left by the
\* previous tick
AccumulateForces(dyn, pos, thr, wgs, st, atm, elapsed) ==
    SumForces(dyn,
              WingLoop(1, [total_lift |-> ZERO, total_drag |-> ZERO,
                           thrust |-> dyn.forces.thrust, stall |-> st],
                       wgs, dyn, pos, atm, elapsed),
              thr, atm)

\* the air density of the tick; the WeatherParams resource keeps its
\* default values
TickAirDensity ==
    CalculateAirDensity(DefaultWeatherParams.temperature,
                        DefaultWeatherParams.pressure,
                        DefaultWeatherParams.humidity)

\* the Atmosphere written at the start of a running tick
RecomputeAtmosphere(elapsed, rng) ==
    [air_density |-> TickAirDensity,
     wind_velocity |-> CalculateWindWithTurbulence(DefaultWeatherParams, ZERO,
                                                   elapsed, rng)]

UpdatePhysics ==
    /\ Runs("update_physics")
    /\ IF ~is_running
       THEN UNCHANGED world
       ELSE \E rng \in RngDraws :
            \E atm \in {RecomputeAtmosphere(time.elapsed, rng)} :
            \E r \in {AccumulateForces(dynamics, translation, throttle, wings,
                                       stall, atm, time.elapsed)} :
                  /\ atmosphere' = atm
                  /\ dynamics' = r.dynamics
                  /\ stall' = r.stall
                  /\ UNCHANGED <<translation, flight_data, throttle, wings,
                                 is_running>>

(***************************************************************************)
(* systems.rs: update_flight_dynamics                                      *)
(***************************************************************************)
GroundLevel == Scale

\* a ground-collision block whose thresholds are compared with >=
GroundCollisionInclusive(dyn) ==
    LET impact_velocity == Length(dyn.velocity)
        v == dyn.velocity
    IN  IF ~v.nan /\ impact_velocity >= 20 * Scale
        THEN [dyn EXCEPT !.velocity = ZERO, !.acceleration = ZERO]
        ELSE IF ~v.nan /\ impact_velocity >= 8 * Scale
        THEN [dyn EXCEPT !.velocity = [VScale(v, 3000) EXCEPT !.y = 0]]
        ELSE IF ~v.nan /\ impact_velocity >= 3 * Scale
        THEN [dyn EXCEPT !.velocity = [VScale(v, 8000) EXCEPT !.y = 0]]
        ELSE [dyn EXCEPT !.velocity = VScale([v EXCEPT !.y = 0], 9500)]

\* a ground-collision block whose soft-touchdown branch leaves out
\* `dynamics.velocity.y = 0.0`
GroundCollisionKeepsVertical(dyn) ==
    LET impact_velocity == Length(dyn.velocity)
        v == dyn.velocity
    IN  IF ~v.nan /\ impact_velocity > 20 * Scale
        THEN [dyn EXCEPT !.velocity = ZERO, !.acceleration = ZERO]
        ELSE IF ~v.nan /\ impact_velocity > 8 * Scale
        THEN [dyn EXCEPT !.velocity = [VScale(v, 3000) EXCEPT !.y = 0]]
        ELSE IF ~v.nan /\ impact_velocity > 3 * Scale
        THEN [dyn EXCEPT !.velocity = [VScale(v, 8000) EXCEPT !.y = 0]]
        ELSE [dyn EXCEPT !.velocity = VScale(v, 9500)]

\* the ground-collision block, entered when translation.y <= ground_level:
\* the new velocity and acceleration
GroundCollision(dyn) ==
    LET impact_velocity == Length(dyn.velocity)
        v == dyn.velocity
    IN  IF ~v.nan /\ impact_velocity > 20 * Scale
        THEN [dyn EXCEPT !.velocity = ZERO, !.acceleration = ZERO]
        ELSE IF ~v.nan /\ impact_velocity > 8 * Scale
        THEN [dyn EXCEPT !.velocity = [VScale(v, 3000) EXCEPT !.y = 0]]
        ELSE IF ~v.nan /\ impact_velocity > 3 * Scale
        THEN [dyn EXCEPT !.velocity = [VScale(v, 8000) EXCEPT !.y = 0]]
        ELSE [dyn EXCEPT !.velocity = VScale([v EXCEPT !.y = 0], 9500)]

\* a loop body that enters the ground-collision block without
\* `transform.translation.y = ground_level`
IntegrateUnclamped(pos, dyn, fd, dt) ==
    LET velocity == VAdd(dyn.velocity, VScale(dyn.acceleration, dt))
        displacement == VScale(velocity, dt)
        moved == VAdd(pos, displacement)
        dyn1 == [dyn EXCEPT !.velocity = velocity]
        grounded == ~moved.nan /\ moved.y <= GroundLevel
        dyn2 == IF grounded THEN GroundCollision(dyn1) ELSE dyn1
    IN  [translation |-> moved,
         dynamics |-> dyn2,
         flight_data |->
            [altitude |-> moved.y,
             airspeed |-> Length(dyn2.velocity),
             vertical_speed |-> dyn2.velocity.y,
             flight_time |-> fd.flight_time + dt,
             distance_traveled |-> fd.distance_traveled + Length(displacement)]]

\* a loop body that moves the flyer by its velocity before the velocity
\* update (explicit Euler)
IntegrateExplicit(pos, dyn, fd, dt) ==
    LET velocity == VAdd(dyn.velocity, VScale(dyn.acceleration, dt))
        displacement == VScale(dyn.velocity, dt)
        moved == VAdd(pos, displacement)
        dyn1 == [dyn EXCEPT !.velocity = velocity]
        grounded == ~moved.nan /\ moved.y <= GroundLevel
        pos2 == IF grounded THEN [moved EXCEPT !.y = GroundLevel] ELSE moved
        dyn2 == IF grounded THEN GroundCollision(dyn1) ELSE dyn1
    IN  [translation |-> pos2,
         dynamics |-> dyn2,
         flight_data |->
            [altitude |-> pos2.y,
             airspeed |-> Length(dyn2.velocity),
             vertical_speed |-> dyn2.velocity.y,
             flight_time |-> fd.flight_time + dt,
             distance_traveled |-> fd.distance_traveled + Length(displacement)]]

\* the body of the loop over flyers, for the tick's dt
Integrate(pos, dyn, fd, dt) ==
    LET velocity == VAdd(dyn.velocity, VScale(dyn.acceleration, dt))
        displacement == VScale(velocity, dt)
        moved == VAdd(pos, displacement)
        dyn1 == [dyn EXCEPT !.velocity = velocity]
        grounded == ~moved.nan /\ moved.y <= GroundLevel
        pos2 == IF grounded THEN [moved EXCEPT !.y = GroundLevel] ELSE moved
        dyn2 == IF grounded THEN GroundCollision(dyn1) ELSE dyn1
    IN  [translation |-> pos2,
         dynamics |-> dyn2,
         flight_data |->
            [altitude |-> pos2.y,
             airspeed |-> Length(dyn2.velocity),
             vertical_speed |-> dyn2.velocity.y,
             flight_time |-> fd.flight_time + dt,
             distance_traveled |-> fd.distance_traveled + Length(displacement)]]

UpdateFlightDynamics ==
    /\ Runs("update_flight_dynamics")
    /\ IF ~is_running
       THEN UNCHANGED world
       ELSE \E dt \in {FMul(time.delta, SimulationParams.simulation_speed)} :
            \E r \in {Integrate(translation, dynamics, flight_data, dt)} :
                /\ translation' = r.translation
                /\ dynamics' = r.dynamics
                /\ flight_data' = r.flight_data
                /\ UNCHANGED <<throttle, wings, stall, atmosphere, is_running>>

(***************************************************************************)
(* systems.rs: handle_input                                                *)
(***************************************************************************)
\* W and S branches without .min(0.35) and .max(-0.15)
ControlAngleOfAttackUnclamped(angle_of_attack, keys, dt) ==
    LET wing_control_speed == Scale
        up == IF "KeyW" \in keys
              THEN angle_of_attack + FMul(wing_control_speed, dt)
              ELSE angle_of_attack
    IN  IF "KeyS" \in keys
        THEN up - FMul(wing_control_speed, dt)
        ELSE up

\* the W and S branches, for one wing
ControlAngleOfAttack(angle_of_attack, keys, dt) ==
    LET wing_control_speed == Scale
        up == IF "KeyW" \in keys
              THEN Min(angle_of_attack + FMul(wing_control_speed, dt), 3500)
              ELSE angle_of_attack
    IN  IF "KeyS" \in keys
        THEN Max(up - FMul(wing_control_speed, dt), -1500)
        ELSE up

\* a throttle branch without .min(1.0) and .max(0.0)
ControlThrottleUnclamped(thr, keys, dt) ==
    LET throttle_speed == 2 * Scale
    IN  IF "KeyT" \in keys
        THEN thr + FMul(throttle_speed, dt)
        ELSE thr - FMul(FMul(throttle_speed, dt), 5000)

\* the throttle branch
ControlThrottle(thr, keys, dt) ==
    LET throttle_speed == 2 * Scale
    IN  IF "KeyT" \in keys
        THEN Min(thr + FMul(throttle_speed, dt), Scale)
        ELSE Max(thr - FMul(FMul(throttle_speed, dt), 5000), 0)

\* a reset branch that leaves out `dynamics.forces = Forces::default()`
ResetKeepsForces ==
    [translation |-> Vec3(0, 5 * Scale, 0),
     dynamics |-> [velocity |-> ZERO, acceleration |-> ZERO,
                   angular_velocity |-> ZERO, forces |-> dynamics.forces],
     flight_data |-> [altitude |-> 5 * Scale, airspeed |-> 0,
                      vertical_speed |-> 0, flight_time |-> 0,
                      distance_traveled |-> 0],
     throttle |-> 0,
     angle_of_attack |-> 1000]

\* the values written by the reset branch (R)
ResetState ==
    [translation |-> Vec3(0, 5 * Scale, 0),
     dynamics |-> [velocity |-> ZERO, acceleration |-> ZERO,
                   angular_velocity |-> ZERO, forces |-> DefaultForces],
     flight_data |-> [altitude |-> 5 * Scale, airspeed |-> 0,
                      vertical_speed |-> 0, flight_time |-> 0,
                      distance_traveled |-> 0],
     throttle |-> 0,
     angle_of_attack |-> 1000]

HandleInput ==
    /\ Runs("handle_input")
    /\ LET toggled == IF "Space" \in keyboard THEN ~is_running ELSE is_running
           dt == time.delta
           controlled == [w \in DOMAIN wings |->
                            [wings[w] EXCEPT !.angle_of_attack =
                                ControlAngleOfAttack(@, keyboard, dt)]]
       IN  IF "KeyR" \in keyboard
           THEN /\ is_running' = FALSE
                /\ translation' = ResetState.translation
                /\ dynamics' = ResetState.dynamics
                /\ flight_data' = ResetState.flight_data
                /\ throttle' = ResetState.throttle
                /\ wings' = [w \in DOMAIN wings |->
                               [controlled[w] EXCEPT !.angle_of_attack =
                                   ResetState.angle_of_attack]]
                /\ UNCHANGED <<stall, atmosphere>>
           ELSE /\ is_running' = toggled
                /\ wings' = controlled
                /\ throttle' = ControlThrottle(throttle, keyboard, dt)
                /\ UNCHANGED <<translation, dynamics, flight_data, stall,
                               atmosphere>>

(***************************************************************************)
(* flapping.rs: toggle_flapping                                            *)
(***************************************************************************)
ToggleFlapping ==
    /\ Runs("toggle_flapping")
    /\ wings' = IF "KeyF" \in keyboard
                THEN [w \in DOMAIN wings |->
                        [wings[w] EXCEPT !.is_active = ~@]]
                ELSE wings
    /\ UNCHANGED <<translation, dynamics, flight_data, throttle, stall,
                   atmosphere, is_running>>

(***************************************************************************)
(* stabilization.rs                                                        *)
(***************************************************************************)
\* stability damping without the limiting before it
DampOnly(v, limit, damping) == VScale(v, damping)

\* velocity (or angular velocity) limiting followed by stability damping
LimitAndDamp(v, limit, damping) ==
    LET limited == IF ~v.nan /\ Length(v) > limit
                   THEN VScale(Normalize(v), limit)
                   ELSE v
    IN  VScale(limited, damping)

\* the body of apply_flight_stabilization on FlightDynamics (the
\* auto-levelling of Transform.rotation is not modelled)
Stabilize(dyn, stabilizer) ==
    [dyn EXCEPT
        !.velocity = LimitAndDamp(@, stabilizer.max_velocity,
                                  stabilizer.stability_damping),
        !.angular_velocity = LimitAndDamp(@, stabilizer.max_angular_velocity,
                                          stabilizer.stability_damping)]

ApplyFlightStabilization ==
    /\ Runs("apply_flight_stabilization")
    /\ dynamics' = Stabilize(dynamics, FlightStabilizer)
    /\ UNCHANGED <<translation, flight_data, throttle, wings, stall,
                   atmosphere, is_running>>

\* the body of add_ground_avoidance: the new velocity
GroundAvoidance(velocity, altitude, delta) ==
    LET min_safe_altitude == 2 * Scale
    IN  IF altitude < min_safe_altitude /\ ~velocity.nan /\ velocity.y < 0
        THEN LET avoidance_strength ==
                     FDiv(min_safe_altitude - altitude, min_safe_altitude)
                 upward_force ==
                     VScale(VScale(VScale(Vec3(0, Scale, 0), avoidance_strength),
                                   500 * Scale), delta)
                 pushed == VAdd(velocity, upward_force)
             IN  IF pushed.y < -Scale
                 THEN [pushed EXCEPT !.y = FMul(@, 8000)]
                 ELSE pushed
        ELSE velocity

AddGroundAvoidance ==
    /\ Runs("add_ground_avoidance")
    /\ dynamics' = [dynamics EXCEPT !.velocity =
                        GroundAvoidance(@, translation.y, time.delta)]
    /\ UNCHANGED <<translation, flight_data, throttle, wings, stall,
                   atmosphere, is_running>>

(***************************************************************************)
(* The simulation: frames of the Update schedule, from spawn               *)
(***************************************************************************)
Next ==
    \/ BeginFrame
    \/ UpdatePhysics
    \/ UpdateFlightDynamics
    \/ HandleInput
    \/ ToggleFlapping
    \/ ApplyFlightStabilization
    \/ AddGroundAvoidance

Spec == Init /\ [][Next]_vars

TypeOK ==
    /\ pending \subseteq Systems
    /\ frame \in 0..MaxFrames
    /\ is_running \in BOOLEAN

(***************************************************************************)
(* A flight: the same frames, started from a state that the sandbox        *)
(* reaches from spawn while paused (T held and F pressed before Space:     *)
(* only the throttle and the flapping flags differ from their spawn        *)
(* values) in the frame in which Space starts the simulation.              *)
(***************************************************************************)
\* Time::elapsed_secs when the flight starts
FlightStart == Scale \div 2
FlightConfigs ==
    {[throttle |-> 6000, is_active |-> FALSE],
     [throttle |-> 0, is_active |-> TRUE]}

InitFlight ==
    /\ translation = SpawnTranslation
    /\ dynamics = SpawnDynamics
    /\ flight_data = SpawnFlightData
    /\ \E cfg \in FlightConfigs :
          /\ throttle = cfg.throttle
          /\ wings = [w \in WingIds |->
                        [angle_of_attack |-> SpawnAngleOfAttack,
                         is_active |-> cfg.is_active]]
    /\ stall = [is_stalled |-> FALSE, stall_severity |-> 0]
    /\ atmosphere = [air_density |-> 12250,
                     wind_velocity |-> Vec3(5 * Scale, 0, 2 * Scale)]
    /\ is_running = TRUE
    /\ time = [delta |-> 0, elapsed |-> FlightStart]
    /\ keyboard = {"Space"}
    /\ pending = {}
    /\ frame = 0
    /\ frame_start = Snapshot
    /\ call = NoCall
    /\ telemetry = DefaultTelemetrySystem
    /\ state = InitialSimulationState

\* in flight the pilot works the throttle (T is held or released) or resets
FlightKeys == {{}, {"KeyT"}, {"KeyR"}}
BeginFlightFrame == BeginFrame /\ keyboard' \in FlightKeys

NextFlight ==
    \/ BeginFlightFrame
    \/ UpdatePhysics
    \/ UpdateFlightDynamics
    \/ HandleInput
    \/ ToggleFlapping
    \/ ApplyFlightStabilization
    \/ AddGroundAvoidance

SpecFlight == InitFlight /\ [][NextFlight]_vars

(***************************************************************************)
(* One tick of update_flight_dynamics, from any flyer state: at or above   *)
(* ground level, at rest or moving, with any net acceleration.             *)
(***************************************************************************)
\* number of altitudes, from ground level up in steps of one metre
MaxAltitudes == 3
TickAltitudes == {GroundLevel + k * Scale : k \in 0..(MaxAltitudes - 1)}
\* velocity components (m/s): at rest, slow, landing, hard landing, crash,
\* and the thresholds between them
TickSpeeds ==
    {-25 * Scale, -20 * Scale, -10 * Scale, -8 * Scale, -5 * Scale, -3 * Scale,
     -Scale, 0, 2 * Scale}
TickAccelerations == {ZERO, Vec3(0, -98100, 0), Vec3(0, 30000, 10000)}

\* a frame in which the systems in scheduled are still to run, with keys
\* down, over the ground
TickStart(keys, scheduled) ==
    /\ \E y \in TickAltitudes, vx \in TickSpeeds, vy \in TickSpeeds,
          a \in TickAccelerations :
          /\ translation = Vec3(0, y, 0)
          /\ dynamics = [SpawnDynamics EXCEPT !.velocity = Vec3(vx, vy, 0),
                                              !.acceleration = a]
          /\ flight_data = [SpawnFlightData EXCEPT
                               !.altitude = y,
                               !.airspeed = Length(Vec3(vx, vy, 0)),
                               !.vertical_speed = vy]
    /\ throttle = 0
    /\ wings = [w \in WingIds |->
                  [angle_of_attack |-> SpawnAngleOfAttack, is_active |-> FALSE]]
    /\ stall = [is_stalled |-> FALSE, stall_severity |-> 0]
    /\ atmosphere = [air_density |-> 12250,
                     wind_velocity |-> Vec3(5 * Scale, 0, 2 * Scale)]
    /\ is_running = TRUE
    /\ \E delta \in Deltas : time = [delta |-> delta, elapsed |-> delta]
    /\ keyboard = keys
    /\ pending = scheduled
    /\ frame = 1
    /\ frame_start = Snapshot
    /\ call = NoCall
    /\ telemetry = DefaultTelemetrySystem
    /\ state = InitialSimulationState

InitTick == TickStart({}, {"update_flight_dynamics"})

NextTick == UpdateFlightDynamics

SpecTick == InitTick /\ [][NextTick]_vars

\* the same tick in a frame in which handle_input runs too, before or after
\* it, with no key, Space (pause) or R (reset) down
InitLanding ==
    \E keys \in {{}, {"Space"}, {"KeyR"}} :
        TickStart(keys, {"handle_input", "update_flight_dynamics"})

NextLanding ==
    \/ UpdateFlightDynamics
    \/ HandleInput

SpecLanding == InitLanding /\ [][NextLanding]_vars

(***************************************************************************)
(* The force functions, applied to arguments drawn from bounded sets       *)
(***************************************************************************)
\* number of altitudes tried, in steps of half a metre from 0
MaxAltitudeSteps == 50
FnAltitudes == {k * (Scale \div 2) : k \in 0..MaxAltitudeSteps}
\* Wing.span, within the range of its slider (5 to 20 m)
FnSpans == {5 * Scale, 8 * Scale, 20 * Scale}

\* number of angles of attack tried on each side of 0, in steps of 0.05 rad
MaxAngleSteps == 20
FnAngles == {k * 500 : k \in (-MaxAngleSteps)..MaxAngleSteps}
FnStallParams ==
    [angle_of_attack : FnAngles,
     critical_angle : {ToRadians(15 * Scale), 2000},
     post_stall_drop : {0, 5000, 7500, Scale},
     stall_progression_rate : {5000, 2 * Scale, 4 * Scale}]

\* airspeed components: zero, below the epsilon (0.0003, 0.0007) and above it
FnSpeeds == {0, 3, -7, 10, -50000, 123456}
FnVelocities == {Vec3(x, y, z) : x \in FnSpeeds, y \in FnSpeeds, z \in FnSpeeds}
FnDensities == {0, 12250}
FnAreas == {5 * Scale, 60 * Scale}
FnCoefficients == {-1500, 0, 300, 12000}

\* what an evaluation leaves alone
FnUnchanged ==
    UNCHANGED <<world, time, keyboard, pending, frame, frame_start, telemetry,
                state>>

EvalGroundEffect ==
    /\ call = NoCall
    /\ \E h \in FnAltitudes, b \in FnSpans :
          LET params == [altitude |-> h, wing_span |-> b, wing_chord |-> Scale]
          IN  call' = [fn |-> "calculate_ground_effect_factor",
                       params |-> params,
                       result |-> CalculateGroundEffectFactor(params)]
    /\ FnUnchanged

EvalStallFactor ==
    /\ call = NoCall
    /\ \E params \in FnStallParams :
          call' = [fn |-> "calculate_stall_factor", params |-> params,
                   result |-> CalculateStallFactor(params)]
    /\ FnUnchanged

EvalLiftForce ==
    /\ call = NoCall
    /\ \E v \in FnVelocities, rho \in FnDensities, area \in FnAreas,
          cl \in FnCoefficients :
          LET params == [air_density |-> rho, velocity |-> v,
                         wing_area |-> area, wing_span |-> 5 * Scale,
                         wing_chord |-> Scale,
                         angle_of_attack |-> SpawnAngleOfAttack]
          IN  call' = [fn |-> "calculate_lift_force", params |-> params,
                       lift_coefficient |-> cl,
                       result |-> CalculateLiftForce(params, cl)]
    /\ FnUnchanged

\* DragParams for the drag evaluations
FnDragParams(v, rho, area, cd) ==
    [air_density |-> rho, velocity |-> v, wing_area |-> area,
     drag_coefficient |-> cd, aspect_ratio |-> 5 * Scale,
     efficiency_factor |-> 8500]

EvalParasiticDrag ==
    /\ call = NoCall
    /\ \E v \in FnVelocities, rho \in FnDensities, area \in FnAreas,
          cd \in FnCoefficients :
          LET params == FnDragParams(v, rho, area, cd)
          IN  call' = [fn |-> "calculate_parasitic_drag", params |-> params,
                       lift_coefficient |-> 0,
                       result |-> CalculateParasiticDrag(params)]
    /\ FnUnchanged

EvalInducedDrag ==
    /\ call = NoCall
    /\ \E v \in FnVelocities, rho \in FnDensities, area \in FnAreas,
          cl \in FnCoefficients :
          LET params == FnDragParams(v, rho, area, 300)
          IN  call' = [fn |-> "calculate_induced_drag", params |-> params,
                       lift_coefficient |-> cl,
                       result |-> CalculateInducedDrag(params, cl)]
    /\ FnUnchanged

EvalTotalDrag ==
    /\ call = NoCall
    /\ \E v \in FnVelocities, rho \in FnDensities, area \in FnAreas,
          cl \in FnCoefficients :
          LET params == FnDragParams(v, rho, area, 300)
          IN  call' = [fn |-> "calculate_total_drag", params |-> params,
                       lift_coefficient |-> cl,
                       result |-> CalculateTotalDrag(params, cl)]
    /\ FnUnchanged

\* Propulsion.throttle: closed, the cruise setting, full
FnThrottles == {0, 6000, Scale}
\* flyer velocities from 45 m/s backwards to 90 m/s forwards, level or
\* sinking at 5 m/s
FnThrustVelocities ==
    {Vec3(0, y, z * Scale) : y \in {0, -50000}, z \in {-45, 0, 10, 45, 60, 90}}

\* the ThrustParams built by update_physics, and the thrust of the propeller
EvalThrustForce ==
    /\ call = NoCall
    /\ \E thr \in FnThrottles, v \in FnThrustVelocities,
          rho \in FnDensities :
          LET thrust_params ==
                  [thrust_power |-> FMul(Propulsion.thrust_power, thr),
                   thrust_direction |-> Propulsion.thrust_direction,
                   efficiency |-> Propulsion.efficiency,
                   propeller_diameter |-> Propulsion.propeller_diameter,
                   air_density |-> rho, velocity |-> v]
          IN  call' = [fn |-> "calculate_thrust_force",
                       params |-> thrust_params, throttle |-> thr,
                       result |-> CalculateThrustForce(thrust_params)]
    /\ FnUnchanged

\* flyer velocities below, at and above max_velocity (50 m/s), and angular
\* velocities below and above max_angular_velocity (2 rad/s)
FnStabilizerVelocities ==
    {Vec3(x * Scale, y * Scale, z * Scale)
       : x \in {-60, -30, 0, 3, 40}, y \in {-60, -30, 0, 3, 40},
         z \in {-30, 0, 3, 50, 80}}
FnAngularVelocities == {ZERO, Vec3(Scale, 0, -Scale), Vec3(0, 3 * Scale, 4 * Scale)}

\* the body of apply_flight_stabilization on a FlightDynamics
EvalStabilization ==
    /\ call = NoCall
    /\ \E v \in FnStabilizerVelocities, w \in FnAngularVelocities :
          LET dyn == [SpawnDynamics EXCEPT !.velocity = v,
                                           !.angular_velocity = w]
          IN  call' = [fn |-> "apply_flight_stabilization", params |-> dyn,
                       result |-> Stabilize(dyn, FlightStabilizer)]
    /\ FnUnchanged

NextFn ==
    \/ EvalGroundEffect
    \/ EvalStallFactor
    \/ EvalLiftForce
    \/ EvalParasiticDrag
    \/ EvalInducedDrag
    \/ EvalTotalDrag
    \/ EvalThrustForce
    \/ EvalStabilization

SpecFn == Init /\ [][NextFn]_vars

(***************************************************************************)
(* telemetry.rs: the recording systems, over frames of the paused          *)
(* simulation (no other system writes the state then, and none writes the  *)
(* TelemetrySystem)                                                        *)
(***************************************************************************)
\* Time::delta_secs of a frame: 0.05 s or 0.1 s
TelemetryDeltas == {500, 1000}

BeginTelemetryFrame ==
    /\ pending = {}
    /\ frame < MaxTelemetryFrames
    /\ \E keys \in {{}, {"KeyL"}}, delta \in TelemetryDeltas :
          /\ keyboard' = keys
          /\ time' = [delta |-> delta, elapsed |-> time.elapsed + delta]
    /\ pending' = {"toggle_telemetry_recording", "record_telemetry"}
    /\ frame' = frame + 1
    /\ frame_start' = Snapshot
    /\ UNCHANGED <<world, call, telemetry, state>>

\* the scheduler picks telemetry system s, which has not yet run in this
\* frame
RunsTelemetry(s) ==
    /\ s \in pending
    /\ pending' = pending \ {s}
    /\ UNCHANGED <<world, time, keyboard, frame, frame_start, call, state>>

ToggleTelemetryRecording ==
    /\ RunsTelemetry("toggle_telemetry_recording")
    /\ telemetry' = IF "KeyL" \in keyboard
                     THEN [telemetry EXCEPT !.recording = ~@]
                     ELSE telemetry

\* the TelemetryDataPoint of the flyer at current_time (of the fields read
\* through Query::single on the two wings, which fails, the defaults; the
\* lengths of the forces and of the wind are left out)
DataPoint(current_time) ==
    [timestamp |-> current_time, position |-> translation,
     velocity |-> dynamics.velocity, acceleration |-> dynamics.acceleration,
     altitude |-> flight_data.altitude, airspeed |-> flight_data.airspeed,
     vertical_speed |-> flight_data.vertical_speed, angle_of_attack |-> 0,
     stall_status |-> stall.is_stalled, flapping_active |-> FALSE,
     air_density |-> atmosphere.air_density]

\* a recorder that never drops a sample
RecordSampleUnbounded(tel, current_time, data_point) ==
    IF ~tel.enabled \/ ~tel.recording THEN tel
    ELSE IF current_time - tel.last_record_time < tel.recording_interval
    THEN tel
    ELSE [tel EXCEPT !.last_record_time = current_time,
                     !.data_points = Append(@, data_point)]

\* the body of record_telemetry: the new TelemetrySystem
RecordSample(tel, current_time, data_point) ==
    IF ~tel.enabled \/ ~tel.recording THEN tel
    ELSE IF current_time - tel.last_record_time < tel.recording_interval
    THEN tel
    ELSE LET pushed == Append(tel.data_points, data_point)
         IN  [tel EXCEPT !.last_record_time = current_time,
                         !.data_points =
                            IF Len(pushed) > tel.max_data_points
                            THEN Tail(pushed) ELSE pushed]

RecordTelemetry ==
    /\ RunsTelemetry("record_telemetry")
    /\ telemetry' = RecordSample(telemetry, time.elapsed,
                                 DataPoint(time.elapsed))

NextTelemetry ==
    \/ BeginTelemetryFrame
    \/ ToggleTelemetryRecording
    \/ RecordTelemetry

SpecTelemetry == Init /\ [][NextTelemetry]_vars

(***************************************************************************)
(* main.rs: the main loop of the calculator                                *)
(***************************************************************************)
\* get_frame_time: 1/60 s, or 1/30 s after a slow frame
FrameTimes == {167, 333}
\* state.params after the panels of a frame: the default, or the default
\* with the forward-speed slider at 9.8 m/s or at 20 m/s
PanelParams ==
    {[DefaultFlightParams EXCEPT !.forward_speed = v]
       : v \in {98000, 12 * Scale, 20 * Scale}}

\* one iteration of the loop of main: the clock, HistoryData::update with
\* the analysis of the last frame, the panels, and the analysis of the
\* parameters they leave
MainLoopFrame ==
    /\ frame < MaxLoopFrames
    /\ \E dt \in IF frame < MaxEditFrames THEN FrameTimes ELSE {167},
          params \in IF frame < MaxEditFrames THEN PanelParams
                     ELSE {state.params} :
          state' = [params |-> params,
                    analysis |-> CalculateComprehensiveFlightAnalysis(params),
                    history |-> HistoryUpdate(state.history, state.analysis,
                                              state.time + dt),
                    time |-> state.time + dt]
    /\ frame' = frame + 1
    /\ UNCHANGED <<world, time, keyboard, pending, frame_start, call,
                   telemetry>>

NextCalculator ==
    \/ MainLoopFrame

SpecCalculator == Init /\ [][NextCalculator]_vars

(***************************************************************************)
(* main.rs: optimize_parameters, one evaluation of the sweep at a time     *)
(***************************************************************************)
\* state.params when the Optimization tab starts the sweep: gliders (no
\* flapping) of the default design, with five sliders moved
OptimizerParams ==
    {[DefaultFlightParams EXCEPT
         !.flapping_frequency = 0, !.pilot_mass = mass,
         !.forward_speed = v, !.wing_span = span, !.wing_chord = chord,
         !.wind_speed = wind]
       : mass \in {60 * Scale, 80 * Scale},
         v \in {98000, 12 * Scale},
         span \in {15000, 3 * Scale},
         chord \in {5000, 15000},
         wind \in {0, 10 * Scale}}

\* the first lines of optimize_parameters, up to the first evaluation
OptimizeStart ==
    /\ call = NoCall
    /\ \E base_params \in OptimizerParams :
          call' = [fn |-> "optimize_parameters", params |-> base_params,
                   best_params |-> base_params,
                   best_score |-> ScoreConfiguration(base_params),
                   round |-> 0, range |-> 1, val |-> ParamRanges[1].min_val,
                   returned |-> FALSE]
    /\ FnUnchanged

\* one iteration of the while loop, and the loop headers that follow it
OptimizeStep ==
    /\ call.fn = "optimize_parameters"
    /\ ~call.returned
    /\ call.round < OptimizerRounds
    /\ \E r \in {ParamRanges[call.range]} :
       \E test_params \in {[call.best_params EXCEPT ![r.name] = call.val]} :
       \E score \in {ScoreConfiguration(test_params)} :
          call' = [call EXCEPT
                     !.best_score =
                         IF score > call.best_score THEN score ELSE @,
                     !.best_params =
                         IF score > call.best_score THEN test_params ELSE @,
                     !.val =
                         IF call.val + r.step <= r.max_val
                         THEN call.val + r.step
                         ELSE ParamRanges[(call.range % Len(ParamRanges)) + 1]
                                .min_val,
                     !.range =
                         IF call.val + r.step <= r.max_val THEN @
                         ELSE (@ % Len(ParamRanges)) + 1,
                     !.round =
                         IF call.val + r.step > r.max_val
                            /\ call.range = Len(ParamRanges)
                         THEN @ + 1 ELSE @]
    /\ FnUnchanged

\* the last line: best_params is returned
OptimizeReturn ==
    /\ call.fn = "optimize_parameters"
    /\ ~call.returned
    /\ call.round = OptimizerRounds
    /\ call' = [call EXCEPT !.returned = TRUE]
    /\ FnUnchanged

NextOptimizer ==
    \/ OptimizeStart
    \/ OptimizeStep
    \/ OptimizeReturn

SpecOptimizer == Init /\ [][NextOptimizer]_vars

(***************************************************************************)
(* The functions of the calculator, one call each                          *)
(***************************************************************************)
\* the parameter sets: the default, with the sliders and the wing-count
\* button of the Configuration tab moved
AnalysisParams ==
    {[DefaultFlightParams EXCEPT
         !.forward_speed = v, !.wind_speed = wind, !.motor_power = motor,
         !.pilot_power_burst = burst, !.wing_count = count,
         !.wing_chord = chord, !.flapping_frequency = frequency,
         !.pilot_mass = mass, !.wing_span = span]
       : v \in {3 * Scale, 98000, 12 * Scale, 20 * Scale, 30 * Scale},
         wind \in {0, 5 * Scale},
         motor \in {0, 2000 * Scale}, burst \in {600 * Scale, 1100 * Scale},
         count \in {2, 4}, chord \in {5000, 15000},
         frequency \in {0, 2 * Scale}, mass \in {80 * Scale, 120 * Scale},
         span \in {15000, 3 * Scale}}

EvalFlightAnalysis ==
    /\ call = NoCall
    /\ \E params \in AnalysisParams :
          call' = [fn |-> "calculate_comprehensive_flight_analysis",
                   params |-> params,
                   result |-> CalculateComprehensiveFlightAnalysis(params)]
    /\ FnUnchanged

NextAnalysis ==
    \/ EvalFlightAnalysis

SpecAnalysis == Init /\ [][NextAnalysis]_vars

(***************************************************************************)
(* Properties of a frame                                                   *)
(***************************************************************************)
\* every system of the current frame has run
FrameDone == pending = {} /\ frame > 0
\* the step is system s running
Step(s) == s \in pending /\ s \notin pending'

\* C1: a whole frame that starts paused, with no key down, leaves the
\* flyer's position, velocity, acceleration, angular velocity, force record,
\* FlightData and throttle, and the Atmosphere, as they were when the frame
\* started.
C1_PausedFrameMutatesNothing ==
    (FrameDone /\ ~frame_start.is_running /\ keyboard = {}) =>
        /\ translation = frame_start.translation
        /\ dynamics = frame_start.dynamics
        /\ flight_data = frame_start.flight_data
        /\ throttle = frame_start.throttle
        /\ atmosphere = frame_start.atmosphere

\* the force record that this tick's inputs alone determine: the one
\* update_physics would write over an all-zero record
FreshForces ==
    AccumulateForces([dynamics EXCEPT !.forces = DefaultForces], translation,
                     throttle, wings, stall, atmosphere', time.elapsed)
        .dynamics.forces

\* C2: on every running tick, update_physics leaves a force record that
\* depends only on that tick's inputs (mass, gravity, wings, atmosphere,
\* velocity, altitude, throttle, flapping phase), not on the record of the
\* previous tick.
C2_ForcesRecomputedEachTick ==
    [][(Step("update_physics") /\ is_running)
          => dynamics'.forces = FreshForces]_vars

\* C3: at the end of a frame in which R is down the flyer holds the
\* spawn-time values (position, velocity, acceleration, angular velocity,
\* force record, FlightData, throttle, every wing's angle of attack) and the
\* simulation is paused, whatever order the systems ran in.
C3_ResetRestoresSpawn ==
    (FrameDone /\ "KeyR" \in keyboard) =>
        /\ translation = SpawnTranslation
        /\ dynamics = SpawnDynamics
        /\ flight_data = SpawnFlightData
        /\ throttle = 0
        /\ \A w \in WingIds : wings[w].angle_of_attack = SpawnAngleOfAttack
        /\ ~is_running

\* C3 witness: the frame of a reset has ended, and when it started the flyer
\* was in flight, away from its spawn values
C3_Witness ==
    /\ FrameDone
    /\ "KeyR" \in keyboard
    /\ frame_start.is_running
    /\ frame_start.flight_data.flight_time > 0
    /\ frame_start.translation # SpawnTranslation
    /\ frame_start.dynamics.forces # DefaultForces

\* C4: in a running frame update_flight_dynamics runs after update_physics
\* and after handle_input.
C4_TickIsSequenced ==
    [][(Step("update_flight_dynamics") /\ is_running)
          => ("update_physics" \notin pending /\ "handle_input" \notin pending)]_vars

(***************************************************************************)
(* Properties of one tick of update_flight_dynamics (SpecTick)             *)
(***************************************************************************)
\* the tick has run on a running simulation
TickDone == pending = {} /\ frame_start.is_running
\* the tick's dt, the velocity after its velocity update, the altitude
\* after its position update and the impact speed
TickDt == FMul(time.delta, SimulationParams.simulation_speed)
TickVelocity ==
    VAdd(frame_start.dynamics.velocity,
         VScale(frame_start.dynamics.acceleration, TickDt))
TickAltitude == frame_start.translation.y + FMul(TickVelocity.y, TickDt)
ImpactSpeed == Length(TickVelocity)
\* v scaled by k, with its vertical component zeroed
Horizontal(v, k) == Vec3(FMul(v.x, k), 0, FMul(v.z, k))

\* C5: on a tick whose integrated altitude is <= ground level, with s the
\* speed after the velocity update: s > 20 zeroes velocity and acceleration;
\* 8 < s <= 20 scales the velocity by 0.3 and zeroes its vertical component;
\* 3 < s <= 8 scales it by 0.8 and zeroes its vertical component; s <= 3
\* zeroes the vertical component and scales the rest by 0.95; the
\* acceleration changes only in the first case.
C5_GroundContactClassification ==
    (TickDone /\ TickAltitude <= GroundLevel) =>
        LET s == ImpactSpeed
            v == TickVelocity
            a == frame_start.dynamics.acceleration
        IN  /\ s > 20 * Scale =>
                  dynamics.velocity = ZERO /\ dynamics.acceleration = ZERO
            /\ (8 * Scale < s /\ s <= 20 * Scale) =>
                  dynamics.velocity = Horizontal(v, 3000)
                  /\ dynamics.acceleration = a
            /\ (3 * Scale < s /\ s <= 8 * Scale) =>
                  dynamics.velocity = Horizontal(v, 8000)
                  /\ dynamics.acceleration = a
            /\ s <= 3 * Scale =>
                  dynamics.velocity = Horizontal(v, 9500)
                  /\ dynamics.acceleration = a

\* C5 witness: a hard landing at exactly 20 m/s under a net acceleration:
\* the velocity is scaled by 0.3, not zeroed, and the acceleration is kept
C5_Witness ==
    /\ TickDone
    /\ TickAltitude <= GroundLevel
    /\ ImpactSpeed = 20 * Scale
    /\ dynamics.velocity = Horizontal(TickVelocity, 3000)
    /\ dynamics.velocity # ZERO
    /\ dynamics.acceleration # ZERO

\* C6: a tick with acceleration = 0 and dt = 0 leaves position and velocity
\* unchanged, from any flyer state, airborne or at ground level.
C6_IntegratorIdempotence ==
    (TickDone /\ frame_start.dynamics.acceleration = ZERO /\ TickDt = 0) =>
        /\ translation = frame_start.translation
        /\ dynamics.velocity = frame_start.dynamics.velocity

\* C13: on a running tick with dt = frame delta * simulation_speed the
\* velocity becomes velocity + acceleration * dt and the position becomes
\* position + (that new velocity) * dt; a flyer whose new altitude is above
\* ground level ends the tick with exactly these two values.
C13_SemiImplicitEuler ==
    (TickDone /\ TickAltitude > GroundLevel) =>
        /\ dynamics.velocity = TickVelocity
        /\ translation = VAdd(frame_start.translation,
                              VScale(TickVelocity, TickDt))

\* C13 witness: an airborne tick with dt > 0 under a net acceleration, whose
\* end position differs from position + (old velocity) * dt
C13_Witness ==
    /\ TickDone
    /\ TickAltitude > GroundLevel
    /\ TickDt > 0
    /\ frame_start.dynamics.acceleration # ZERO
    /\ dynamics.velocity = TickVelocity
    /\ translation = VAdd(frame_start.translation, VScale(TickVelocity, TickDt))
    /\ translation # VAdd(frame_start.translation,
                          VScale(frame_start.dynamics.velocity, TickDt))

\* C15: on every running tick whose integrated altitude is <= ground level
\* (1.0) the flyer ends the tick at exactly ground level with vertical
\* velocity 0, whatever the impact speed; after every tick position.y and
\* FlightData.altitude are >= ground level.
C15_GroundContactClampsAltitude ==
    TickDone =>
        /\ TickAltitude <= GroundLevel =>
              /\ translation.y = GroundLevel
              /\ dynamics.velocity.y = 0
              /\ flight_data.altitude = GroundLevel
        /\ translation.y >= GroundLevel
        /\ flight_data.altitude >= GroundLevel

\* C15 witness: a descending flyer whose integrated altitude is below ground
\* level ends the tick at ground level with no vertical velocity
C15_Witness ==
    /\ TickDone
    /\ TickAltitude < GroundLevel
    /\ TickVelocity.y < 0
    /\ translation.y = GroundLevel
    /\ dynamics.velocity.y = 0
    /\ flight_data.altitude = GroundLevel

\* C16: the impact classification and its velocity damping apply on the
\* tick in which the flyer comes down to ground level; a flyer that starts a
\* tick resting at ground level (no vertical velocity) and remains there
\* keeps its horizontal velocity and its acceleration: it is not classified
\* or damped again.
C16_ClassifiedOnTransitionOnly ==
    (TickDone
     /\ frame_start.translation.y = GroundLevel
     /\ frame_start.dynamics.velocity.y = 0
     /\ TickAltitude <= GroundLevel)
        => /\ dynamics.velocity.x = TickVelocity.x
           /\ dynamics.velocity.z = TickVelocity.z
           /\ dynamics.acceleration = frame_start.dynamics.acceleration

C7_NoGroundEffectAboveSpan ==
    (call.fn = "calculate_ground_effect_factor"
     /\ call.params.altitude > call.params.wing_span)
        => call.result = Scale

\* C7 witness: an evaluation half a metre above one span, returning 1.0
C7_Witness ==
    /\ call.fn = "calculate_ground_effect_factor"
    /\ call.params.altitude = call.params.wing_span + Scale \div 2
    /\ call.result = Scale

\* C7 (as stated): calculate_ground_effect_factor returns exactly 1.0 for
\* every altitude and wing span with altitude/span >= 1, the boundary
\* altitude/span = 1 included.
C7_FactorOneFromSpanUp ==
    (call.fn = "calculate_ground_effect_factor"
     /\ call.params.altitude >= call.params.wing_span)
        => call.result = Scale

\* C8: for altitude <= span the ground-effect factor is >= 1 and is
\* strictly greater at every lower altitude: factor(h1) > factor(h2) >= 1
\* for h1 < h2 <= span.
C8_GroundEffectGrowsTowardGround ==
    (call.fn = "calculate_ground_effect_factor"
     /\ call.params.altitude <= call.params.wing_span)
        => /\ call.result >= Scale
           /\ \A h1 \in FnAltitudes :
                 h1 < call.params.altitude =>
                    CalculateGroundEffectFactor(
                        [call.params EXCEPT !.altitude = h1]) > call.result

\* C9: calculate_stall_factor (with a post-stall floor in 0..1) is 1.0 for
\* |angle| <= critical_angle, is non-increasing in |angle| beyond it, is
\* never below post_stall_drop, and equals post_stall_drop once
\* (|angle| - critical_angle) * stall_progression_rate >= 1.
C9_StallFactorShape ==
    call.fn = "calculate_stall_factor" =>
        LET p == call.params
            a == Abs(p.angle_of_attack)
        IN  /\ a <= p.critical_angle => call.result = Scale
            /\ call.result >= p.post_stall_drop
            /\ a > p.critical_angle =>
                  \A b \in FnAngles :
                     (p.critical_angle < Abs(b) /\ Abs(b) <= a) =>
                        CalculateStallFactor([p EXCEPT !.angle_of_attack = b])
                           >= call.result
            /\ (a > p.critical_angle
                /\ FMul(a - p.critical_angle, p.stall_progression_rate) >= Scale)
                  => call.result = p.post_stall_drop

\* C9 witness: a deep stall with the default parameters: the factor has
\* reached the floor 0.5
C9_Witness ==
    /\ call.fn = "calculate_stall_factor"
    /\ call.params.critical_angle = ToRadians(15 * Scale)
    /\ call.params.post_stall_drop = 5000
    /\ call.params.stall_progression_rate = 2 * Scale
    /\ FMul(Abs(call.params.angle_of_attack) - call.params.critical_angle,
            call.params.stall_progression_rate) >= Scale
    /\ call.result = 5000

\* the magnitude of v is below the epsilon of the guards (0.001)
BelowEpsilon(v) ==
    /\ ~v.nan
    /\ Max(Abs(v.x), Max(Abs(v.y), Abs(v.z))) < VelocityEpsilon
    /\ v.x * v.x + v.y * v.y + v.z * v.z < VelocityEpsilon * VelocityEpsilon

\* C10: for every airspeed vector of magnitude < 0.001, calculate_lift_force,
\* calculate_parasitic_drag, calculate_induced_drag and calculate_total_drag
\* return the zero vector, whatever the coefficients, density and area.
C10_ZeroForceBelowEpsilon ==
    (call.fn \in {"calculate_lift_force", "calculate_parasitic_drag",
                  "calculate_induced_drag", "calculate_total_drag"}
     /\ BelowEpsilon(call.params.velocity))
        => call.result = ZERO

\* C10 witness: the lift of a wing in sea-level air at the zero airspeed
\* vector, with a nonzero lift coefficient, is the zero vector
C10_Witness ==
    /\ call.fn = "calculate_lift_force"
    /\ call.params.velocity = ZERO
    /\ call.params.air_density > 0
    /\ call.lift_coefficient # 0
    /\ call.result = ZERO

\* the direction of v survives normalization at the resolution of the
\* model: v is purely vertical, or its unit vector keeps a horizontal part
Resolved(v) ==
    \/ v.x = 0 /\ v.z = 0
    \/ Normalize(v).x # 0
    \/ Normalize(v).z # 0

\* C11: calculate_lift_force is total: for every airspeed vector of
\* magnitude >= 0.001, a purely vertical one (parallel to world-up)
\* included, it returns a finite vector, no component of which is NaN.
C11_LiftForceTotal ==
    (call.fn = "calculate_lift_force"
     /\ ~BelowEpsilon(call.params.velocity)
     /\ Resolved(call.params.velocity))
        => ~call.result.nan

\* a lies between 0.2 * b and b, with the sign of b
WithinFactor(a, b) ==
    /\ Abs(FMul(b, 2000)) <= Abs(a)
    /\ Abs(a) <= Abs(b)
    /\ Sgn(a) * Sgn(b) >= 0

\* C19: with s = thrust_power * throttle * efficiency and d the thrust
\* direction, calculate_thrust_force returns d * s * k, where
\* k = 1 - clamp(velocity . d / 50, 0, 0.8): every component of the thrust
\* is between 0.2 and 1 times that of d * s and has its sign (k is in
\* [0.2, 1], the thrust never reverses), the thrust is d * s whenever
\* velocity . d <= 0, and it is the zero vector when throttle = 0.
C19_ThrustForce ==
    call.fn = "calculate_thrust_force" =>
        LET p == call.params
            s == FMul(FMul(500 * Scale, call.throttle), p.efficiency)
            along == Dot(p.velocity, p.thrust_direction)
            static == VScale(p.thrust_direction, s)
            k == Scale - Clamp(along \div 50, 0, 8000)
        IN  /\ call.result = VScale(static, k)
            /\ WithinFactor(call.result.x, static.x)
            /\ WithinFactor(call.result.y, static.y)
            /\ WithinFactor(call.result.z, static.z)
            /\ Dot(call.result, p.thrust_direction) >= 0
            /\ along <= 0 => call.result = static
            /\ call.throttle = 0 => call.result = ZERO

\* C19 witness: at full throttle and 60 m/s along the thrust direction the
\* clamp holds k at 0.2, and the thrust still points along the direction
C19_Witness ==
    /\ call.fn = "calculate_thrust_force"
    /\ call.throttle = Scale
    /\ Dot(call.params.velocity, call.params.thrust_direction) > 50 * Scale
    /\ call.result =
          VScale(VScale(call.params.thrust_direction, 425 * Scale), 2000)
    /\ Dot(call.result, call.params.thrust_direction) > 0

(***************************************************************************)
(* Properties of the controls (Spec)                                       *)
(***************************************************************************)
\* C12: in every reachable state, after any sequence of key presses, frame
\* deltas, resets and ticks, every wing's angle of attack is in
\* [-0.15, 0.35] rad.
C12_AngleOfAttackInRange ==
    \A w \in WingIds :
        -1500 <= wings[w].angle_of_attack /\ wings[w].angle_of_attack <= 3500

\* C12 witness: W is held in a frame whose delta would carry the angle of
\* attack past 0.35, and handle_input leaves it at 0.35
C12_Witness ==
    /\ frame > 0
    /\ "handle_input" \notin pending
    /\ "KeyW" \in keyboard
    /\ \A w \in WingIds :
          /\ frame_start.wings[w].angle_of_attack + time.delta > 3500
          /\ wings[w].angle_of_attack = 3500

\* C14: at the end of every frame FlightData.altitude = position.y,
\* FlightData.airspeed = |velocity| and FlightData.vertical_speed =
\* velocity.y of the same flyer.
C14_FlightDataTracksFlyer ==
    FrameDone =>
        /\ flight_data.altitude = translation.y
        /\ flight_data.airspeed = Length(dynamics.velocity)
        /\ flight_data.vertical_speed = dynamics.velocity.y

(***************************************************************************)
(* Properties of update_physics (SpecFlight)                               *)
(***************************************************************************)
\* the lift and drag of wing w alone in a tick of update_physics, under the
\* atmosphere the tick writes
WingForce(w) ==
    WingForces([total_lift |-> ZERO, total_drag |-> ZERO, thrust |-> ZERO,
                stall |-> stall],
               wings[w], dynamics, translation, atmosphere', time.elapsed)

\* C18: after every running tick of update_physics, forces.weight is
\* (0, -784.8, 0) (mass 80 times gravity 9.81, downward), forces.lift and
\* forces.drag are the sums of the lift and the drag of the two wings,
\* forces.total = weight + lift + drag + thrust of the stored record, and
\* acceleration = forces.total / mass.
C18_ForceAccumulator ==
    [][(Step("update_physics") /\ is_running) =>
          \E f \in {dynamics'.forces}, left \in {WingForce(1)},
             right \in {WingForce(2)} :
              /\ f.weight = Vec3(0, -7848000, 0)
              /\ f.lift = VAdd(left.total_lift, right.total_lift)
              /\ f.drag = VAdd(left.total_drag, right.total_drag)
              /\ f.total = VAdd(VAdd(VAdd(f.weight, f.lift), f.drag), f.thrust)
              /\ dynamics'.acceleration = VDivide(f.total, 80 * Scale)]_vars

\* C18 witness: update_physics has run in a frame of powered flight: the
\* record holds the weight, a lift, a drag and a thrust, and their sum
C18_Witness ==
    /\ frame > 0
    /\ is_running
    /\ "update_physics" \notin pending
    /\ "update_flight_dynamics" \in pending
    /\ dynamics.forces.weight = Vec3(0, -7848000, 0)
    /\ dynamics.forces.lift # ZERO
    /\ dynamics.forces.drag # ZERO
    /\ dynamics.forces.thrust # ZERO
    /\ dynamics.forces.total =
          VAdd(VAdd(VAdd(dynamics.forces.weight, dynamics.forces.lift),
                    dynamics.forces.drag), dynamics.forces.thrust)
    /\ dynamics.acceleration = VDivide(dynamics.forces.total, 80 * Scale)

(***************************************************************************)
(* Properties of flapping (Spec)                                           *)
(***************************************************************************)
\* number of elapsed times tried, in steps of 0.05 s from 0: two flapping
\* cycles at 2 Hz
MaxFlapSteps == 20
FlapTimes == {k * 500 : k \in 0..MaxFlapSteps}

\* the FlappingWing of wing w
Flapping(w) == [DefaultFlappingWing EXCEPT !.is_active = wings[w].is_active]
\* (phase mod 2 pi) / (2 pi) of that wing at elapsed time t
NormalizedPhase(w, t) ==
    FDiv((FMul(2 * FMul(t, Flapping(w).frequency), Pi)
             + Flapping(w).phase_offset) % TwoPi,
         TwoPi)

\* C20: in every reachable state all wings are in the same active/inactive
\* flapping state, and the flapping thrust of every wing, at the current
\* and at any elapsed time, is the zero vector when its flapping is
\* inactive or the normalized cycle phase is >= power_stroke_ratio, and a
\* vector with non-negative components otherwise.
C20_FlappingThrust ==
    /\ \A w1 \in WingIds, w2 \in WingIds :
          wings[w1].is_active = wings[w2].is_active
    /\ \A w \in WingIds, t \in FlapTimes \cup {time.elapsed} :
          \E r \in {CalculateFlappingThrust(Flapping(w), 5 * Scale,
                                            atmosphere.air_density, t)} :
             IF ~wings[w].is_active \/ NormalizedPhase(w, t) >= 3000
             THEN r = ZERO
             ELSE ~r.nan /\ r.x >= 0 /\ r.y >= 0 /\ r.z >= 0

\* C20 witness: F has switched both wings to flapping; at the current
\* elapsed time they are in the power stroke and produce thrust, and a
\* tenth of a second later they are in the recovery stroke and produce none
C20_Witness ==
    /\ \A w \in WingIds : wings[w].is_active
    /\ "KeyF" \in keyboard
    /\ "toggle_flapping" \notin pending
    /\ NormalizedPhase(1, time.elapsed) < 3000
    /\ CalculateFlappingThrust(Flapping(1), 5 * Scale, atmosphere.air_density,
                               time.elapsed).x > 0
    /\ NormalizedPhase(1, time.elapsed + 1000) >= 3000
    /\ CalculateFlappingThrust(Flapping(1), 5 * Scale, atmosphere.air_density,
                               time.elapsed + 1000) = ZERO

(***************************************************************************)
(* Properties of the throttle (SpecFlight)                                 *)
(***************************************************************************)
\* C21: in every reachable state the throttle is within [0, 1]; in a frame
\* handle_input raises it by 2 * dt (up to 1) while T is held, lowers it by
\* 1 * dt (down to 0) otherwise, and a reset sets it to 0; no other system
\* changes it.
C21_ThrottleInRange ==
    /\ 0 <= throttle /\ throttle <= Scale
    /\ "handle_input" \in pending => throttle = frame_start.throttle
    /\ (frame > 0 /\ "handle_input" \notin pending) =>
          throttle = IF "KeyR" \in keyboard THEN 0
                     ELSE IF "KeyT" \in keyboard
                     THEN Min(frame_start.throttle + 2 * time.delta, Scale)
                     ELSE Max(frame_start.throttle - time.delta, 0)

\* C21 witness: T is held through a frame long enough to carry the throttle
\* past 1, and handle_input leaves it at 1
C21_Witness ==
    /\ frame > 0
    /\ "handle_input" \notin pending
    /\ "KeyT" \in keyboard
    /\ frame_start.throttle + 2 * time.delta > Scale
    /\ throttle = Scale

(***************************************************************************)
(* The calculator                                                          *)
(***************************************************************************)
AnalysisCall == call.fn = "calculate_comprehensive_flight_analysis"

\* C22 as stated: the takeoff distance is infinite when the phase is not
\* Takeoff or the ground-roll acceleration is not positive, and it is the
\* finite positive lift_off_speed^2 / (2 * acceleration) when the phase is
\* Takeoff and the acceleration is positive.
C22_FiniteWhenAccelerating ==
    AnalysisCall =>
        LET r == call.result
            lift_off_speed == FMul(r.stall_speed, 12000)
        IN  IF r.flight_phase = "Takeoff" /\ r.acceleration > 0
            THEN /\ r.takeoff_distance > 0
                 /\ r.takeoff_distance < Infinity
                 /\ r.takeoff_distance
                        = FDiv(Sq(lift_off_speed), 2 * r.acceleration)
            ELSE r.takeoff_distance = Infinity

\* C22, amended: the takeoff distance is infinite when the phase is not
\* Takeoff or the ground-roll acceleration is at most 0.1 m/s^2, and it is
\* the finite positive lift_off_speed^2 / (2 * acceleration) when the phase
\* is Takeoff and the acceleration is above 0.1 m/s^2.
C22_FiniteAboveThreshold ==
    AnalysisCall =>
        LET r == call.result
            lift_off_speed == FMul(r.stall_speed, 12000)
        IN  IF r.flight_phase = "Takeoff" /\ r.acceleration > 1000
            THEN /\ r.takeoff_distance > 0
                 /\ r.takeoff_distance < Infinity
                 /\ r.takeoff_distance
                        = FDiv(Sq(lift_off_speed), 2 * r.acceleration)
            ELSE r.takeoff_distance = Infinity
\* a takeoff whose acceleration is positive but not above the threshold
C22_Witness ==
    /\ AnalysisCall
    /\ call.result.flight_phase = "Takeoff"
    /\ call.result.acceleration > 0
    /\ call.result.acceleration <= 1000
    /\ call.result.takeoff_distance = Infinity

\* C23: the flight phase is the one the Physics tab documents: OnGround
\* below 1 m/s; InFlight for every effective airspeed at or above the stall
\* speed; Takeoff from 1 m/s up to the stall speed when more than 1000 W are
\* available.
C23_PhaseAsDocumented ==
    AnalysisCall =>
        LET r == call.result
        IN  /\ r.effective_airspeed < Scale => r.flight_phase = "OnGround"
            /\ r.effective_airspeed >= r.stall_speed
                  => r.flight_phase = "InFlight"
            /\ (/\ r.effective_airspeed >= Scale
                /\ r.effective_airspeed < r.stall_speed
                /\ r.available_power > 1000 * Scale)
                  => r.flight_phase = "Takeoff"

CriticalAngle == ToRadians(15 * Scale)

\* C25: the angle of attack of every wing stays within [-0.15, 0.35] rad,
\* whose lower end is above minus the critical angle of 15 degrees.  Every
\* running tick of update_physics leaves is_stalled true exactly when the
\* angle of attack of the wings is above the critical angle, and a
\* stall_severity within [0, 1] that is 0 exactly when is_stalled is false.
\* A step of handle_input with S down and W and R up raises no angle of
\* attack, so presses of S alone, from the spawn angle of 0.1 rad, never
\* give a stall.
C25_StallAtPositiveAngleOnly ==
    [][/\ \A w \in WingIds :
            /\ wings'[w].angle_of_attack >= -1500
            /\ wings'[w].angle_of_attack <= 3500
            /\ wings'[w].angle_of_attack = wings'[1].angle_of_attack
       /\ -1500 > -CriticalAngle
       /\ (Step("update_physics") /\ is_running) =>
             /\ stall'.is_stalled <=> wings[2].angle_of_attack > CriticalAngle
             /\ stall'.stall_severity >= 0
             /\ stall'.stall_severity <= Scale
             /\ stall'.stall_severity = 0 <=> ~stall'.is_stalled
       /\ (Step("handle_input") /\ keyboard = {"KeyS"}) =>
             \A w \in WingIds :
                /\ wings'[w].angle_of_attack <= wings[w].angle_of_attack
                /\ wings[w].angle_of_attack <= SpawnAngleOfAttack
                      => wings'[w].angle_of_attack <= CriticalAngle
      ]_vars
\* a running tick has just written a stall, at an angle of attack above
\* the critical angle
C25_Witness ==
    /\ is_running
    /\ frame > 0
    /\ "update_physics" \notin pending
    /\ "handle_input" \notin pending
    /\ stall.is_stalled
    /\ stall.stall_severity > 0
    /\ wings[2].angle_of_attack > CriticalAngle

\* C26: a running tick of update_flight_dynamics adds dt >= 0 to
\* flight_time and the length of the tick's displacement, taken before the
\* ground collision, to distance_traveled; a reset (R down in handle_input)
\* sets both to 0; every other step, a paused tick among them, leaves both
\* as they are.  So neither decreases but by a reset.
C26_FlightTotalsGrow ==
    [][\E dt \in {FMul(time.delta, SimulationParams.simulation_speed)} :
       \E displacement \in
            {VScale(VAdd(dynamics.velocity, VScale(dynamics.acceleration, dt)),
                    dt)} :
          LET reset == Step("handle_input") /\ "KeyR" \in keyboard
              tick == Step("update_flight_dynamics") /\ is_running
          IN  /\ tick =>
                    /\ dt >= 0
                    /\ flight_data'.flight_time = flight_data.flight_time + dt
                    /\ flight_data'.distance_traveled
                          = flight_data.distance_traveled + Length(displacement)
              /\ reset =>
                    /\ flight_data'.flight_time = 0
                    /\ flight_data'.distance_traveled = 0
              /\ ~reset =>
                    /\ flight_data'.flight_time >= flight_data.flight_time
                    /\ flight_data'.distance_traveled
                          >= flight_data.distance_traveled
              /\ ~reset /\ ~tick =>
                    /\ flight_data'.flight_time = flight_data.flight_time
                    /\ flight_data'.distance_traveled
                          = flight_data.distance_traveled
      ]_vars
\* a running tick has put the flyer on the ground, and the distance of its
\* fall is counted
C26_Witness ==
    /\ is_running
    /\ frame > 0
    /\ "update_flight_dynamics" \notin pending
    /\ translation.y = GroundLevel
    /\ frame_start.translation.y > GroundLevel
    /\ flight_data.flight_time > frame_start.flight_data.flight_time
    /\ flight_data.distance_traveled
          > frame_start.flight_data.distance_traveled

\* u is a positive multiple of v, or both are zero: no component changes
\* its sign and the cross product vanishes (to the resolution of a
\* normalized component, 10^-4, which is 1/100 of the longer vector in the
\* cross product of vectors up to 100 m/s)
SameDirection(u, v) ==
    LET c == Cross(u, v)
        tolerance == Max(Length(u), Length(v)) \div 100
    IN  /\ Sgn(u.x) = Sgn(v.x) /\ Sgn(u.y) = Sgn(v.y) /\ Sgn(u.z) = Sgn(v.z)
        /\ Abs(c.x) <= tolerance /\ Abs(c.y) <= tolerance
        /\ Abs(c.z) <= tolerance

\* the step of Length for vectors above 26 m/s: 0.01 m/s
LengthResolution == 100

\* C27: after apply_flight_stabilization the speed of the flyer is at most
\* max_velocity * stability_damping = 49 m/s (to the resolution of Length)
\* and its angular speed at most max_angular_velocity * stability_damping
\* = 1.96 rad/s, whatever they were before, and the velocity points where
\* it pointed before.
C27_SpeedLimited ==
    call.fn = "apply_flight_stabilization" =>
        /\ Length(call.result.velocity)
              <= FMul(FlightStabilizer.max_velocity,
                      FlightStabilizer.stability_damping) + LengthResolution
        /\ Length(call.result.angular_velocity)
              <= FMul(FlightStabilizer.max_angular_velocity,
                      FlightStabilizer.stability_damping)
        /\ SameDirection(call.result.velocity, call.params.velocity)
        /\ call.result.acceleration = call.params.acceleration
\* a flyer faster than max_velocity, turning faster than
\* max_angular_velocity, has been slowed down to the limits
C27_Witness ==
    /\ call.fn = "apply_flight_stabilization"
    /\ Length(call.params.velocity) > 100 * Scale
    /\ Length(call.params.angular_velocity) > 2 * Scale
    /\ Length(call.result.velocity) > 48 * Scale
    /\ Length(call.result.angular_velocity) > 19000

(***************************************************************************)
(* The telemetry buffer                                                    *)
(***************************************************************************)
\* C28: the buffer never holds more than max_data_points samples.  Only
\* record_telemetry changes it, and only when telemetry is enabled and
\* recording and at least recording_interval seconds have passed since
\* last_record_time, the timestamp of the last sample recorded (0 before
\* the first): then the sample of the current time is added at the back,
\* the oldest sample is dropped if the buffer was full, and the others
\* keep their order.
C28_BoundedFifo ==
    [][\E old \in {telemetry.data_points}, new \in {telemetry'.data_points} :
          /\ Len(new) <= telemetry'.max_data_points
          /\ new # <<>> => telemetry'.last_record_time = new[Len(new)].timestamp
          /\ new # old =>
                /\ Step("record_telemetry")
                /\ telemetry.enabled /\ telemetry.recording
                /\ time.elapsed - telemetry.last_record_time
                      >= telemetry.recording_interval
                /\ new[Len(new)].timestamp = time.elapsed
                /\ new[Len(new)].position = translation
                /\ IF Len(old) = telemetry.max_data_points
                   THEN new = Append(Tail(old), new[Len(new)])
                   ELSE new = Append(old, new[Len(new)])
          /\ (/\ Step("record_telemetry")
              /\ telemetry.enabled /\ telemetry.recording
              /\ time.elapsed - telemetry.last_record_time
                    >= telemetry.recording_interval) => new # old
      ]_vars
\* the buffer is full and its newest sample is the one of this frame
C28_Witness ==
    /\ Len(telemetry.data_points) = telemetry.max_data_points
    /\ telemetry.data_points[1].timestamp > 1000
    /\ telemetry.last_record_time = time.elapsed
    /\ "record_telemetry" \notin pending

(***************************************************************************)
(* The history of the calculator                                           *)
(***************************************************************************)
\* C29: after any number of updates the five series of HistoryData have
\* the same length, the smaller of the number of updates and 100.  An
\* update adds the sample of the analysis and the time it is given at the
\* back of every series, after dropping the oldest sample of every series
\* if they held 100; the other samples keep their places in the order.
C29_HistoryInLockStep ==
    [][\E old \in {state.history}, new \in {state'.history} :
          /\ \A k \in DOMAIN new : Len(new[k]) = Min(frame', 100)
          /\ \A k \in DOMAIN new :
                \E sample \in {new[k][Len(new[k])]} :
                   new[k] = IF Len(old[k]) = 100
                            THEN Append(Tail(old[k]), sample)
                            ELSE Append(old[k], sample)
          /\ new.power_history[Len(new.power_history)]
                = state.analysis.total_power_required
          /\ new.lift_history[Len(new.lift_history)]
                = FDiv(state.analysis.lift_force, state.analysis.weight_force)
          /\ new.speed_history[Len(new.speed_history)]
                = state.analysis.effective_airspeed
          /\ new.drag_history[Len(new.drag_history)]
                = state.analysis.drag_force
          /\ new.time_stamps[Len(new.time_stamps)] = state'.time
      ]_vars
\* the series hold 100 samples after more than 100 updates: the samples of
\* the first frames are gone
C29_Witness ==
    /\ frame > 100
    /\ Len(state.history.time_stamps) = 100
    /\ Len(state.history.power_history) = 100
    /\ state.history.time_stamps[1] > 333
    /\ state.history.time_stamps[100] = state.time

(***************************************************************************)
(* The optimizer                                                           *)
(***************************************************************************)
\* the values the sweep gives the parameter of range r
GridValues(r) ==
    {r.min_val + i * r.step : i \in 0..((r.max_val - r.min_val) \div r.step)}
SweptNames == {ParamRanges[i].name : i \in DOMAIN ParamRanges}

\* C30: over the whole sweep of optimize_parameters the running best score
\* never decreases; it is the score of the running best configuration, at
\* least the score of base_params and at least 0; every swept parameter of
\* the best configuration (the configuration returned, at the end) is its
\* base value or a value of its grid, within its range; no other parameter
\* changes.
C30_NeverWorseThanBase ==
    [][call'.fn = "optimize_parameters" =>
         \E best \in {call'.best_params}, base \in {call'.params} :
            /\ call.fn = "optimize_parameters"
                  => call'.best_score >= call.best_score
            /\ call'.best_score = ScoreConfiguration(best)
            /\ call'.best_score >= ScoreConfiguration(base)
            /\ ScoreConfiguration(base) >= 0
            /\ \A i \in DOMAIN ParamRanges :
                  \E r \in {ParamRanges[i]} :
                     \/ best[r.name] = base[r.name]
                     \/ /\ best[r.name] \in GridValues(r)
                        /\ r.min_val <= best[r.name]
                        /\ best[r.name] <= r.max_val
            /\ \A k \in (DOMAIN base) \ SweptNames : best[k] = base[k]
      ]_vars
\* a sweep has returned a configuration that scores higher than its base
\* and differs from it in a swept parameter
C30_Witness ==
    /\ call.fn = "optimize_parameters"
    /\ call.returned
    /\ call.best_score > ScoreConfiguration(call.params)
    /\ call.best_params.wing_span # call.params.wing_span
====
